---- MODULE Spec2Model ----
(***************************************************************************)
(* KI Tracker: day normalisation, interpolation and the multi-chart       *)
(* cursor synchroniser of dashboard.js, and the collector of collect.js    *)
(* with the scraper of scraper.js.                                         *)
(*                                                                         *)
(* Instants are integers counting ticks since the Unix epoch (UTC); a      *)
(* minute is MinuteTicks ticks, so that sub-minute cursor positions exist. *)
(* A date key ('YYYY-MM-DD') is the number of the UTC day it names.  The   *)
(* browser's timezone is the variable tz (hours east of UTC).              *)
(***************************************************************************)
EXTENDS Integers, Sequences, FiniteSets, TLC

VARIABLES
    tz,            \* timezone offset of the browser, in hours
    now,           \* wall clock (new Date())
    historyData,   \* dashboard.js global: the cached samples
    charts,        \* dashboard.js global: registry of chart instances
    currentRange,  \* dashboard.js global: selected range mode
    pending,       \* number of refresh() calls suspended in await fetchData()
    destroyed,     \* the Chart objects the last step called destroy() on
    lastEvent,     \* the step that ran last, with the arguments it used
    normCall,      \* last call of normalizeDayData: arguments and result
    interpCall,    \* last call of getInterpolatedValues: argument and result
    maxCall,       \* last call of calculateDailyMax: argument and result
    clampCall,     \* last call of clampTextX: arguments and result
    visibleDatasets, \* dashboard.js global: which series the charts draw
    refreshes,     \* the refresh() calls: those suspended in fetchData, in the
                   \* order they started, and the newest one that has completed
    dataFile,      \* collect.js: the file ./data/history.json
    statusFile,    \* collect.js: the file ./data/status.json
    backups,       \* collect.js: the files ./data/history.json.corrupt.*
    run,           \* the last run of collect(): what it read, did and wrote
    call           \* last call of a pure function of the collector

vars == <<tz, now, historyData, charts, currentRange, pending,
          destroyed, lastEvent, normCall, interpCall, maxCall, clampCall,
          visibleDatasets, refreshes,
          dataFile, statusFile, backups, run, call>>

\* the state of the dashboard, and the state of the collector
dashVars == <<historyData, charts, currentRange, pending,
              destroyed, lastEvent, normCall, interpCall, maxCall, clampCall,
              visibleDatasets, refreshes>>
collectorVars == <<dataFile, statusFile, backups, run, call>>

----------------------------------------------------------------------------
(* Bounds of the model *)

MinuteTicks == 2          \* ticks per minute
Today == 20081            \* number of the UTC day on which the clock starts
                          \* (24 December 2024)
DaysBack == 1             \* samples exist for Today-DaysBack and for Today
MaxSamples == 2           \* longest history drawn for the pure functions

HourTicks == 60 * MinuteTicks
DayTicks == 24 * HourTicks

TimeZones == {-5, 0, 1}
NowHours == {2, 12, 21, 23}
SampleHours == {3, 9, 12, 22}

----------------------------------------------------------------------------
(* Program constants *)

Null == -1                \* JavaScript null, kept apart from every percentage
GYM_HOURS_start == 9
GYM_HOURS_end == 22

----------------------------------------------------------------------------
(* Date arithmetic of the JavaScript Date object *)

\* new Date('YYYY-MM-DD'): a date-only string is parsed as UTC midnight
ParseDateStr(dateStr) == dateStr * DayTicks

\* date.toISOString().split('T')[0]: the UTC calendar day
toISODate(t) == t \div DayTicks

\* date.toDateString(): the calendar day in the local timezone
toDateString(t) == (t + tz * HourTicks) \div DayTicks

\* date.getHours(), date.getMinutes(): local time of day
getHours(t) == ((t + tz * HourTicks) % DayTicks) \div HourTicks
getMinutes(t) == ((t + tz * HourTicks) % HourTicks) \div MinuteTicks

\* date.setHours(h, m, 0, 0): same local calendar day, given local time
setHours(t, h, m) ==
    toDateString(t) * DayTicks + h * HourTicks + m * MinuteTicks - tz * HourTicks

minusDays_none(t, i) == t

\* date.setDate(date.getDate() - i)
minusDays(t, i) == t - i * DayTicks

----------------------------------------------------------------------------
(* Samples *)

SampleValues == { <<0, 0>>, <<40, 60>>, <<Null, 20>> }
SampleTimes ==
    { (Today - d) * DayTicks + h * HourTicks : d \in {0, DaysBack}, h \in SampleHours }
Samples ==
    { [timestamp |-> t, lead |-> v[1], boulder |-> v[2]] :
        t \in SampleTimes, v \in SampleValues }

\* the collector appends at the current time: timestamps never decrease
Histories(S, n) ==
    UNION { { s \in [1..k -> S] :
                \A i \in 1..(k-1) : s[i].timestamp <= s[i+1].timestamp } : k \in 0..n }

pushEntry_front(bucket, entry) == <<entry>> \o bucket

\* groups[key].push(entry)
pushEntry(bucket, entry) == Append(bucket, entry)

RECURSIVE groupFrom(_, _, _)
\* data.forEach(entry => ...) of groupDataByDay, from entry k on
groupFrom(data, k, groups) ==
    IF k > Len(data)
    THEN groups
    ELSE LET key == toISODate(data[k].timestamp)
             bucket == IF key \in DOMAIN groups THEN groups[key] ELSE <<>>
         IN groupFrom(data, k + 1,
                      [x \in DOMAIN groups \cup {key} |->
                          IF x = key THEN pushEntry(bucket, data[k]) ELSE groups[x]])

\* groupDataByDay(data): the object that maps each date key to its bucket
groupedData(data) == groupFrom(data, 1, [x \in {} |-> <<>>])

\* groupDataByDay(data)[key] || []
groupDataByDay(data, key) ==
    LET groups == groupedData(data)
    IN IF key \in DOMAIN groups THEN groups[key] ELSE <<>>

----------------------------------------------------------------------------
(* Peaks of a day *)

isValid_nonNull(v) == v # Null

\* e.lead != null && e.lead > 0
isValid(v) == v # Null /\ v > 0

validEntries(dayData, series) ==
    LET IsValidEntry(e) == isValid(e[series])
    IN SelectSeq(dayData, IsValidEntry)

isGreater_orEqual(a, b) == a >= b

\* e.lead > max.lead
isGreater(a, b) == a > b

RECURSIVE reduceMax(_, _, _, _)
\* entries.reduce((max, e) => e[series] > max[series] ? e : max), from entry k on
reduceMax(entries, series, k, max) ==
    IF k > Len(entries)
    THEN max
    ELSE reduceMax(entries, series, k + 1,
                   IF isGreater(entries[k][series], max[series]) THEN entries[k] ELSE max)

NoPeaks ==
    [maxLead |-> Null, maxBoulder |-> Null, maxLeadTime |-> Null, maxBoulderTime |-> Null]

calculatePeaksForDay_anyValue(dayData) ==
    LET hasLead(e) == isValid_nonNull(e.lead)
        hasBoulder(e) == isValid_nonNull(e.boulder)
        leadEntries == SelectSeq(dayData, hasLead)
        boulderEntries == SelectSeq(dayData, hasBoulder)
        maxLeadEntry == reduceMax(leadEntries, "lead", 2, leadEntries[1])
        maxBoulderEntry == reduceMax(boulderEntries, "boulder", 2, boulderEntries[1])
    IN [maxLead |-> IF Len(leadEntries) > 0 THEN maxLeadEntry.lead ELSE Null,
        maxLeadTime |-> IF Len(leadEntries) > 0 THEN maxLeadEntry.timestamp ELSE Null,
        maxBoulder |-> IF Len(boulderEntries) > 0 THEN maxBoulderEntry.boulder ELSE Null,
        maxBoulderTime |-> IF Len(boulderEntries) > 0
                           THEN maxBoulderEntry.timestamp ELSE Null]

calculatePeaksForDay(dayData) ==
    LET validLeadEntries == validEntries(dayData, "lead")
        validBoulderEntries == validEntries(dayData, "boulder")
        maxLeadEntry == reduceMax(validLeadEntries, "lead", 2, validLeadEntries[1])
        maxBoulderEntry == reduceMax(validBoulderEntries, "boulder", 2, validBoulderEntries[1])
    IN [maxLead |-> IF Len(validLeadEntries) > 0 THEN maxLeadEntry.lead ELSE Null,
        maxLeadTime |-> IF Len(validLeadEntries) > 0 THEN maxLeadEntry.timestamp ELSE Null,
        maxBoulder |-> IF Len(validBoulderEntries) > 0 THEN maxBoulderEntry.boulder ELSE Null,
        maxBoulderTime |-> IF Len(validBoulderEntries) > 0
                           THEN maxBoulderEntry.timestamp ELSE Null]

\* calculateDailyMax: one entry per day; results.reverse() puts the oldest first
calculateDailyMax(data, daysToInclude) ==
    [k \in 1..daysToInclude |->
        LET dateStr == toISODate(minusDays(now, daysToInclude - k))
            InDay(entry) == toISODate(entry.timestamp) = dateStr
            dayEntries == SelectSeq(data, InDay)
            validLeadEntries == validEntries(dayEntries, "lead")
            validBoulderEntries == validEntries(dayEntries, "boulder")
            maxLeadEntry == reduceMax(validLeadEntries, "lead", 2, validLeadEntries[1])
            maxBoulderEntry ==
                reduceMax(validBoulderEntries, "boulder", 2, validBoulderEntries[1])
        IN [dateStr |-> dateStr,
            maxLead |-> IF Len(validLeadEntries) > 0 THEN maxLeadEntry.lead ELSE Null,
            maxBoulder |-> IF Len(validBoulderEntries) > 0
                           THEN maxBoulderEntry.boulder ELSE Null,
            maxLeadTime |-> IF Len(validLeadEntries) > 0
                            THEN maxLeadEntry.timestamp ELSE Null,
            maxBoulderTime |-> IF Len(validBoulderEntries) > 0
                               THEN maxBoulderEntry.timestamp ELSE Null,
            dayEntries |-> dayEntries]]

----------------------------------------------------------------------------
(* normalizeDayData *)

ZeroPoint(t) == [timestamp |-> t, lead |-> 0, boulder |-> 0]

needsStartPoint_never(data, startOfDay) == FALSE

needsStartPoint_whenEmpty(data, startOfDay) == Len(data) = 0

needsStartPoint(data, startOfDay) ==
    Len(data) = 0 \/ data[1].timestamp > startOfDay

needsEndPoint_always(baseDate) == TRUE

needsEndPoint_never(baseDate) == FALSE

needsEndPoint(baseDate) ==
    LET isToday == toDateString(baseDate) = toDateString(now)
    IN ~isToday \/ (isToday /\ getHours(now) >= GYM_HOURS_end)

normalizeDayData(rawData, dateStr) ==
    LET baseDate == ParseDateStr(dateStr)
        startOfDay == setHours(baseDate, GYM_HOURS_start, 0)
        endOfDay == setHours(baseDate, GYM_HOURS_end, 0)
        data1 == IF needsStartPoint(rawData, startOfDay)
                 THEN <<ZeroPoint(startOfDay)>> \o rawData
                 ELSE rawData
        data2 == IF needsEndPoint(baseDate)
                    /\ Len(data1) > 0
                    /\ data1[Len(data1)].timestamp < endOfDay
                 THEN Append(data1, ZeroPoint(endOfDay))
                 ELSE data1
    IN [labels |-> [k \in 1..Len(data2) |-> data2[k].timestamp],
        leadData |-> [k \in 1..Len(data2) |-> data2[k].lead],
        boulderData |-> [k \in 1..Len(data2) |-> data2[k].boulder],
        minTime |-> startOfDay,
        maxTime |-> endOfDay]

----------------------------------------------------------------------------
(* Interpolation; a fraction is a pair <<numerator, denominator>> *)

interpolateValue_nearest(start, end, factor) ==
    IF start = Null \/ end = Null THEN <<0, 1>> ELSE <<start, 1>>

interpolateValue_propagate(start, end, factor) ==
    IF start = Null \/ end = Null
    THEN <<Null, 1>>
    ELSE <<start * factor[2] + (end - start) * factor[1], factor[2]>>

interpolateValue(start, end, factor) ==
    IF start = Null \/ end = Null
    THEN <<0, 1>>
    ELSE <<start * factor[2] + (end - start) * factor[1], factor[2]>>

\* Math.max and Math.min
mathMax(a, b) == IF a >= b THEN a ELSE b
mathMin(a, b) == IF a <= b THEN a ELSE b

clampTextX_none(xPos, textWidth, left, right) == <<2 * xPos, 2>>

\* clampTextX of both plugins, in a chartArea from left to right; the result
\* is a fraction with denominator 2, since halfWidth = textWidth / 2
clampTextX(xPos, textWidth, left, right) ==
    LET minX == 2 * left + textWidth
        maxX == 2 * right - textWidth
    IN <<mathMax(minX, mathMin(maxX, 2 * xPos)), 2>>

encloses_noUpper(timestamps, i, time) == time >= timestamps[i]

encloses(timestamps, i, time) ==
    time >= timestamps[i] /\ time <= timestamps[i + 1]

NullValues == [isNull |-> TRUE, lead |-> <<0, 1>>, boulder |-> <<0, 1>>]

getInterpolatedValues(chart, timeValue) ==
    LET timestamps == chart.labels
        found == { i \in 1..(Len(timestamps) - 1) : encloses(timestamps, i, timeValue) }
    IN IF found = {}
       THEN NullValues
       ELSE LET index == CHOOSE i \in found : \A j \in found : i <= j
                tStart == timestamps[index]
                tEnd == timestamps[index + 1]
                range == tEnd - tStart
                factor == IF range = 0 THEN <<0, 1>> ELSE <<timeValue - tStart, range>>
            IN [isNull |-> FALSE,
                lead |-> interpolateValue(chart.leadData[index],
                                          chart.leadData[index + 1], factor),
                boulder |-> interpolateValue(chart.boulderData[index],
                                             chart.boulderData[index + 1], factor)]

----------------------------------------------------------------------------
(* The collector: collect.js and scraper.js.  The files under ./data are   *)
(* the variables dataFile, statusFile and backups; the collector reads     *)
(* the clock now in the timezone tz of the machine it runs on.  The field  *)
(* openSectors of a sample is left out.                                    *)

MAX_DAYS == 7

\* the civil date of a day number (days since 1970-01-01)
civil(d) ==
    LET z == d + 719468
        era == z \div 146097
        doe == z - era * 146097
        yoe == (doe - doe \div 1460 + doe \div 36524 - doe \div 146096) \div 365
        doy == doe - (365 * yoe + yoe \div 4 - yoe \div 100)
        mp == (5 * doy + 2) \div 153
    IN [month |-> IF mp < 10 THEN mp + 3 ELSE mp - 9,
        day |-> doy - (153 * mp + 2) \div 5 + 1]

\* date.getMonth() (0-11) and date.getDate(), in the local timezone
getMonth(t) == civil(toDateString(t)).month - 1
getDate(t) == civil(toDateString(t)).day

DecimalDigits == <<"0", "1", "2", "3", "4", "5", "6", "7", "8", "9">>

\* String(n).padStart(2, '0') for 0 <= n <= 99
padStart2(n) ==
    IF n < 10
    THEN "0" \o DecimalDigits[n + 1]
    ELSE DecimalDigits[(n \div 10) + 1] \o DecimalDigits[(n % 10) + 1]

HOURS_standard == [start |-> 9, end |-> 22]

HOURS_exceptions ==
    [key \in {"12-24", "12-25", "12-31", "01-01"} |->
        CASE key = "12-24" -> [start |-> 9, end |-> 14]
          [] key = "12-25" -> [start |-> 14, end |-> 22]
          [] key = "12-31" -> [start |-> 9, end |-> 14]
          [] key = "01-01" -> [start |-> 14, end |-> 22]]

beforeEnd_inclusive(hour, end) == hour <= end

\* hour < config.end
beforeEnd(hour, end) == hour < end

\* isGymOpen(date)
isGymOpen(date) ==
    LET month == getMonth(date) + 1
        day == getDate(date)
        key == padStart2(month) \o "-" \o padStart2(day)
        hour == getHours(date)
        config == IF key \in DOMAIN HOURS_exceptions
                  THEN HOURS_exceptions[key] ELSE HOURS_standard
    IN hour >= config.start /\ beforeEnd(hour, config.end)

isLater_orEqual(timestamp, cutoff) == timestamp >= cutoff

\* new Date(entry.timestamp) > cutoff
isLater(timestamp, cutoff) == timestamp > cutoff

\* pruneOldData(data, maxDays), called at the instant now
pruneOldData(data, maxDays) ==
    LET cutoff == minusDays(now, maxDays)
    IN SelectSeq(data, LAMBDA entry : isLater(entry.timestamp, cutoff))

\* parseInt of an attribute that holds no number
NaN == -2

\* JavaScript a + b and Math.round(x / 2) on numbers that may be NaN
jsAdd(a, b) == IF a = NaN \/ b = NaN THEN NaN ELSE a + b
roundHalf_floor(x) == IF x = NaN THEN NaN ELSE x \div 2
roundHalf(x) == IF x = NaN THEN NaN ELSE (x + 1) \div 2

\* a ?? b
coalesce(a, b) == IF a # Null THEN a ELSE b

\* the words parseOccupancyData looks for in a label
isLeadText(text) == text \in {"seil", "lead"}
isBoulderText(text) == text = "boulder"

RECURSIVE eachContainer(_, _, _)
\* $('.bar-container').each(...): the last matching container of a kind wins
eachContainer(html, k, result) ==
    IF k > Len(html)
    THEN result
    ELSE LET el == html[k]
             next == IF ~el.inContainer THEN result
                     ELSE IF isLeadText(el.text)
                          THEN [result EXCEPT !.lead = el.percentage]
                          ELSE IF isBoulderText(el.text)
                               THEN [result EXCEPT !.boulder = el.percentage]
                               ELSE result
         IN eachContainer(html, k + 1, next)

RECURSIVE eachPercentage(_, _, _)
\* $('[data-percentage]').each(...): the first matching element of a kind wins
eachPercentage(html, k, result) ==
    IF k > Len(html)
    THEN result
    ELSE LET el == html[k]
             next == IF isLeadText(el.text)
                     THEN [result EXCEPT !.lead = coalesce(result.lead, el.percentage)]
                     ELSE IF isBoulderText(el.text)
                          THEN [result EXCEPT !.boulder = coalesce(result.boulder, el.percentage)]
                          ELSE result
         IN eachPercentage(html, k + 1, next)

\* parseOccupancyData(html); html is the sequence of the elements that carry
\* a data-percentage, each inside a labelled .bar-container or with the
\* words only in the text of its parent
parseOccupancyData(html) ==
    LET empty == [lead |-> Null, boulder |-> Null]
        first == eachContainer(html, 1, empty)
        found == IF first.lead = Null /\ first.boulder = Null
                 THEN eachPercentage(html, 1, empty)
                 ELSE first
    IN [lead |-> found.lead, boulder |-> found.boulder,
        overall |-> IF found.lead # Null /\ found.boulder # Null
                    THEN roundHalf(jsAdd(found.lead, found.boulder))
                    ELSE coalesce(found.lead, found.boulder)]

\* what the gym's site answers: ok is false when a request fails or times
\* out, html is the answer of the AJAX endpoint otherwise
Answer(html) == [ok |-> TRUE, html |-> html]
NoAnswer == [ok |-> FALSE, html |-> <<>>]

scrapeThrows_requestOnly(page) == ~page.ok

\* scrapeOccupancy() throws when a request fails or nothing was parsed
scrapeThrows(page) ==
    \/ ~page.ok
    \/ LET data == parseOccupancyData(page.html)
       IN data.lead = Null /\ data.boulder = Null

\* the message of the error scrapeOccupancy() throws
errorMessage(page) ==
    IF ~page.ok THEN "request failed"
    ELSE "Failed to parse occupancy data: No known selectors matched"

\* scrapeOccupancy() when it returns
scrapeOccupancy(page) ==
    LET data == parseOccupancyData(page.html)
    IN [timestamp |-> now, lead |-> data.lead, boulder |-> data.boulder,
        overall |-> data.overall]

\* the zero-occupancy marker of a closed gym
closedMarker == [timestamp |-> now, lead |-> 0, boulder |-> 0, overall |-> 0]

\* ./data/history.json: absent; a JSON array; valid JSON that is no array;
\* or a file that cannot be read or parsed
MissingFile == [kind |-> "missing", data |-> <<>>]
ArrayFile(data) == [kind |-> "array", data |-> data]
ObjectFile == [kind |-> "object", data |-> <<>>]
CorruptFile(data) == [kind |-> "corrupt", data |-> data]

\* readHistory(): the array it returns
readHistory(file) == IF file.kind = "array" THEN file.data ELSE <<>>

readFails_never(file) == FALSE

\* readHistory(): the catch branch is taken and existsSync finds the file
readFails(file) == file.kind = "corrupt"

\* JSON.stringify of a number: NaN is written as null
toJSON(v) == IF v = NaN THEN Null ELSE v

\* JSON.stringify(prunedHistory) and the parse of the next run
stringify(data) ==
    [k \in 1..Len(data) |->
        [timestamp |-> data[k].timestamp, lead |-> toJSON(data[k].lead),
         boulder |-> toJSON(data[k].boulder), overall |-> toJSON(data[k].overall)]]

isZero_orNull(v) == v = 0 \/ v = Null

\* lastEntry.overall === 0
isZero(v) == v = 0

isLastZero_never(history) == FALSE

\* lastEntry && lastEntry.overall === 0
isLastZero(history) ==
    Len(history) > 0 /\ isZero(history[Len(history)].overall)

NoStatus == [lastRun |-> Null, success |-> FALSE, message |-> "none"]

\* parseOccupancyData was not called
NoParse == [lead |-> Null, boulder |-> Null, overall |-> Null]

NoRun ==
    [outcome |-> "none", history |-> <<>>, renameOk |-> TRUE, backedUp |-> FALSE,
     isOpen |-> FALSE, scraped |-> FALSE, parsed |-> NoParse, newData |-> <<>>]

NoCall ==
    [fn |-> "none", input |-> <<>>, maxDays |-> 0, out |-> <<>>, again |-> <<>>,
     open |-> FALSE]

----------------------------------------------------------------------------
(* Specification of the pure functions: the inputs are drawn by Init, the  *)
(* actions apply normalizeDayData to the bucket of one of the days a view  *)
(* renders, and getInterpolatedValues to the resulting series.  No result  *)
(* depends on an earlier call, so every function is applied once to the   *)
(* inputs drawn.                                                           *)

NoNormCall ==
    [called |-> FALSE, groups |-> [x \in {} |-> <<>>], rawData |-> <<>>, dateStr |-> 0,
     out |-> [labels |-> <<>>, leadData |-> <<>>, boulderData |-> <<>>,
              minTime |-> 0, maxTime |-> 0],
     peaks |-> NoPeaks]

NoInterpCall == [called |-> FALSE, time |-> 0, values |-> NullValues]

NoMaxCall == [called |-> FALSE, daysToInclude |-> 0, out |-> <<>>]

NoClampCall ==
    [plugin |-> "none", xPos |-> 0, textWidth |-> 0, left |-> 0, right |-> 0,
     out |-> <<0, 1>>]

\* what the page shows outside the chart area
NoPage == [leadValue |-> "", boulderValue |-> "", lastUpdated |-> "", timesGrid |-> ""]

NoEvent ==
    [type |-> "none", chart |-> 0, time |-> Null, inChartArea |-> FALSE,
     activeBefore |-> 0, dateStr |-> 0, outcome |-> "none", fetched |-> <<>>,
     page |-> NoPage, caught |-> FALSE, escaped |-> FALSE,
     series |-> "none", rank |-> 0, startedIn |-> "none"]

\* let visibleDatasets = { lead: true, boulder: true }
AllVisible == [lead |-> TRUE, boulder |-> TRUE]

\* the refresh that completed last among those that started latest: none yet
NoSettled == [rank |-> 0, outcome |-> "none", fetched |-> <<>>]

\* no refresh() call is followed one by one
NoRefreshes == [started |-> 0, inFlight |-> <<>>, newest |-> NoSettled, served |-> 0]

\* no file written and no run made
IdleCollector ==
    /\ dataFile = MissingFile
    /\ statusFile = NoStatus
    /\ backups = {}
    /\ run = NoRun
    /\ call = NoCall

InitPure ==
    /\ tz \in TimeZones
    /\ now \in { Today * DayTicks + h * HourTicks : h \in NowHours }
    /\ historyData \in Histories(Samples, MaxSamples)
    /\ charts = <<>>
    /\ currentRange = "1d"
    /\ pending = 0
    /\ destroyed = {}
    /\ lastEvent = NoEvent
    /\ normCall = NoNormCall
    /\ interpCall = NoInterpCall
    /\ maxCall = NoMaxCall
    /\ clampCall = NoClampCall
    /\ visibleDatasets = AllVisible
    /\ refreshes = NoRefreshes
    /\ IdleCollector

\* updateChart and a render function, for the day i days before today:
\* the grouping, the key of the day, its bucket, the series and the peaks
NormalizeDay(i) ==
    LET key == toISODate(minusDays(now, i))
        rawData == groupDataByDay(historyData, key)
    IN /\ ~normCall.called /\ ~maxCall.called
       /\ normCall' = [called |-> TRUE, groups |-> groupedData(historyData),
                       rawData |-> rawData, dateStr |-> key,
                       out |-> normalizeDayData(rawData, key),
                       peaks |-> calculatePeaksForDay(rawData)]
       /\ interpCall' = NoInterpCall
       /\ maxCall' = NoMaxCall
       /\ UNCHANGED <<tz, now, historyData, charts, currentRange, pending,
                      destroyed, lastEvent, clampCall, visibleDatasets, refreshes,
                   collectorVars>>

\* renderMaxWeekView (7 days) and renderMaxMonthView (30 days)
DaysToInclude == {7, 30}

DailyMax(daysToInclude) ==
    /\ ~normCall.called /\ ~maxCall.called
    /\ maxCall' = [called |-> TRUE, daysToInclude |-> daysToInclude,
                   out |-> calculateDailyMax(historyData, daysToInclude)]
    /\ normCall' = NoNormCall
    /\ interpCall' = NoInterpCall
    /\ UNCHANGED <<tz, now, historyData, charts, currentRange, pending,
                   destroyed, lastEvent, clampCall, visibleDatasets, refreshes,
                   collectorVars>>

\* query times: every label, one tick outside the first and the last, and
\* a point a third of the way into every interval
QueryTimes(labels) ==
    { labels[k] : k \in 1..Len(labels) }
    \cup { labels[k] - 1 : k \in {1} \cap DOMAIN labels }
    \cup { labels[k] + 1 : k \in {Len(labels)} \cap DOMAIN labels }
    \cup { labels[k] + (labels[k + 1] - labels[k]) \div 3 : k \in 1..(Len(labels) - 1) }

\* one query of the series just built; the result depends on nothing else
Interpolate(t) ==
    /\ normCall.called
    /\ ~interpCall.called
    /\ interpCall' = [called |-> TRUE, time |-> t,
                      values |-> getInterpolatedValues(normCall.out, t)]
    /\ UNCHANGED <<tz, now, historyData, charts, currentRange, pending,
                   destroyed, lastEvent, normCall, maxCall, clampCall, visibleDatasets, refreshes,
                   collectorVars>>

NextPure ==
    \/ \E i \in 0..DaysBack : NormalizeDay(i)
    \/ \E daysToInclude \in DaysToInclude : DailyMax(daysToInclude)
    \/ \E t \in QueryTimes(normCall.out.labels) : Interpolate(t)

SpecPure == InitPure /\ [][NextPure]_vars

----------------------------------------------------------------------------
(* Specification of the two peak computations on the same history: a bar   *)
(* view calls calculateDailyMax, whose entries a drill-down chart takes    *)
(* its peaks from, and a grid view calls calculatePeaksForDay on the       *)
(* bucket of a day                                                         *)

\* renderWeekView for the day i days before today, after a bar view was
\* rendered from the same history
PeaksOfDay(i) ==
    LET key == toISODate(minusDays(now, i))
        rawData == groupDataByDay(historyData, key)
    IN /\ maxCall.called
       /\ ~normCall.called
       /\ normCall' = [called |-> TRUE, groups |-> groupedData(historyData),
                       rawData |-> rawData, dateStr |-> key,
                       out |-> normalizeDayData(rawData, key),
                       peaks |-> calculatePeaksForDay(rawData)]
       /\ UNCHANGED <<tz, now, historyData, charts, currentRange, pending,
                      destroyed, lastEvent, interpCall, maxCall, clampCall, visibleDatasets, refreshes,
                      collectorVars>>

NextPeaks ==
    \/ \E daysToInclude \in DaysToInclude : DailyMax(daysToInclude)
    \/ \E i \in 0..DaysBack : PeaksOfDay(i)

SpecPeaks == InitPure /\ [][NextPeaks]_vars

----------------------------------------------------------------------------
(* Chart instances.  A chart is a record: id is the address of the Chart    *)
(* object, xMin/xMax are chart.scales.x.min/max, bars is dailyMaxData of a  *)
(* bar chart and drillDown tells whether the canvas sits in the drill-down  *)
(* wrapper.  Chart objects live in two arenas of ArenaSize addresses: a     *)
(* rebuild constructs its charts in the arena the registry does not use,   *)
(* so an address is reused only after its object has become unreachable.   *)

ArenaSize == 8

ChartIds(cs) == { cs[i].id : i \in 1..Len(cs) }

\* first address of the arena that holds the charts of cs
ArenaOf(cs) == IF cs # <<>> /\ cs[1].id <= ArenaSize THEN 0 ELSE ArenaSize

\* new Chart(...) in updateChart: the k-th object of the new registry
NewChartId(cs, k) == (ArenaSize - ArenaOf(cs)) + k

\* new Chart(...) in renderDrillDownDayView: a free address next to the bar chart
DrillDownChartId(cs) ==
    CHOOSE x \in (ArenaOf(cs) + 1)..(ArenaOf(cs) + ArenaSize) :
        /\ x \notin ChartIds(cs)
        /\ \A y \in (ArenaOf(cs) + 1)..(x - 1) : y \in ChartIds(cs)

\* interpolationPlugin.afterInit, and the { active: false } literals
IdleCrosshair == [active |-> FALSE, time |-> Null]

ActiveCrosshair(time) == [active |-> TRUE, time |-> time]

datasetHidden_never(series) == FALSE

\* hidden: !visibleDatasets.lead, hidden: !visibleDatasets.boulder
datasetHidden(series) == ~visibleDatasets[series]

\* the datasets of a new chart: the option hidden of each, and no visibility
\* set on the chart yet
NewDatasets ==
    [hidden |-> [lead |-> datasetHidden("lead"), boulder |-> datasetHidden("boulder")],
     metaHidden |-> [lead |-> "unset", boulder |-> "unset"]]

\* Chart.js, chart.isDatasetVisible(index): the visibility set on the chart
\* if there is one, the option hidden of the dataset otherwise
isDatasetVisible(chart, series) ==
    IF chart.datasets.metaHidden[series] = "unset"
    THEN ~chart.datasets.hidden[series]
    ELSE chart.datasets.metaHidden[series] = "shown"

\* Chart.js, chart.setDatasetVisibility(index, visible)
setDatasetVisibility(chart, series, visible) ==
    [chart EXCEPT !.datasets.metaHidden[series] = IF visible THEN "shown" ELSE "hidden"]

\* createDayChartWithPeakHighlight on the normalized data of one day
DayChart(id, rawData, dateStr, drillDown) ==
    LET normalized == normalizeDayData(rawData, dateStr)
    IN [id |-> id, type |-> "line", drillDown |-> drillDown, dateStr |-> dateStr,
        labels |-> normalized.labels,
        leadData |-> normalized.leadData,
        boulderData |-> normalized.boulderData,
        xMin |-> normalized.minTime, xMax |-> normalized.maxTime,
        bars |-> <<>>,
        datasets |-> NewDatasets,
        crosshair |-> IdleCrosshair]

\* createMaxChart: a bar chart on a category axis, without the
\* interpolation plugin
MaxChart(id, dailyMaxData) ==
    [id |-> id, type |-> "bar", drillDown |-> FALSE, dateStr |-> 0,
     labels |-> <<>>, leadData |-> <<>>, boulderData |-> <<>>,
     xMin |-> 0, xMax |-> Len(dailyMaxData) - 1,
     bars |-> dailyMaxData,
     datasets |-> NewDatasets,
     crosshair |-> IdleCrosshair]

\* renderSingleDayView, renderTwoDayView, renderWeeklyView: today and the
\* days before it, newest first
renderDays(data, n, old) ==
    [k \in 1..n |->
        LET key == toISODate(minusDays(now, k - 1))
        IN DayChart(NewChartId(old, k), groupDataByDay(data, key), key, FALSE)]

renderView_weekOnly(range, data, old) ==
    CASE range = "1d" -> renderDays(data, 1, old)
      [] range = "2d" -> renderDays(data, 2, old)
      [] range = "7d" -> renderDays(data, 7, old)
      [] range = "maxWeek" -> <<MaxChart(NewChartId(old, 1), calculateDailyMax(data, 7))>>
      [] range = "maxMonth" -> <<MaxChart(NewChartId(old, 1), calculateDailyMax(data, 7))>>
      [] OTHER -> renderDays(data, 1, old)

\* the switch of updateChart
renderView(range, data, old) ==
    CASE range = "1d" -> renderDays(data, 1, old)
      [] range = "2d" -> renderDays(data, 2, old)
      [] range = "7d" -> renderDays(data, 7, old)
      [] range = "maxWeek" -> <<MaxChart(NewChartId(old, 1), calculateDailyMax(data, 7))>>
      [] range = "maxMonth" -> <<MaxChart(NewChartId(old, 1), calculateDailyMax(data, 30))>>
      [] OTHER -> renderDays(data, 1, old)

clearRegistry_keep(cs) == cs

\* charts = []
clearRegistry(cs) == <<>>

\* updateChart(data): the new registry
updateChart(cs, range, data) ==
    clearRegistry(cs) \o renderView(range, data, cs)

----------------------------------------------------------------------------
(* Cursor synchronisation *)

targetTime_hourOnly(chartMin, time) ==
    setHours(chartMin, IF time # Null /\ time # 0 THEN getHours(time) ELSE 0, 0)

\* syncCharts: the time of day of the source, on the date of the chart
targetTime(chartMin, time) ==
    LET hours == IF time # Null /\ time # 0 THEN getHours(time) ELSE 0
        minutes == IF time # Null /\ time # 0 THEN getMinutes(time) ELSE 0
    IN setHours(chartMin, hours, minutes)

withinBounds_always(chart, t) == TRUE

\* syncCharts: the bounds check
withinBounds(chart, t) == t >= chart.xMin /\ t <= chart.xMax

syncCharts(cs, source, time) ==
    [i \in 1..Len(cs) |->
        IF i = source
        THEN cs[i]
        ELSE IF time = Null
        THEN [cs[i] EXCEPT !.crosshair = IdleCrosshair]
        ELSE LET t == targetTime(cs[i].xMin, time)
             IN IF withinBounds(cs[i], t)
                THEN [cs[i] EXCEPT !.crosshair = ActiveCrosshair(t)]
                ELSE [cs[i] EXCEPT !.crosshair = IdleCrosshair]]

leaveOutsideArea_ignored(type) == FALSE

leaveOutsideArea_anyEvent(type) == TRUE

\* afterEvent: the else-branch for a mouseout outside the chart area
leaveOutsideArea(type) == type = "mouseout"

\* interpolationPlugin.afterEvent on chart cs[c]
afterEvent(cs, c, type, time, inChartArea) ==
    IF type \in {"mousemove", "mouseout"} /\ inChartArea
    THEN IF type = "mousemove"
         THEN syncCharts([cs EXCEPT ![c].crosshair = ActiveCrosshair(time)], c, time)
         ELSE syncCharts([cs EXCEPT ![c].crosshair = IdleCrosshair], c, Null)
    ELSE IF leaveOutsideArea(type)
    THEN syncCharts([cs EXCEPT ![c].crosshair = IdleCrosshair], c, Null)
    ELSE cs

----------------------------------------------------------------------------
(* The dashboard as a state machine *)

MaxPending == 1           \* refresh() calls in flight at once
MaxHistory == 2           \* samples the collector has written
MaxTicks == 1             \* times the clock advances in one run
TickHours == 11           \* hours the clock advances at a time
StartHour == 12           \* UTC hour at which the page is loaded

\* the case labels of the switch in updateChart
RangeIds == {"1d", "2d", "7d", "maxWeek", "maxMonth"}

\* event.target.dataset.range of a filter button, which is any string: the
\* case labels and two identifiers that are no case label
ButtonRanges == RangeIds \cup {"peak-week", "peak-month"}

\* the samples the collector has written, one a day at noon, oldest first
ServerLog ==
    [k \in 1..MaxHistory |->
        [timestamp |-> (Today - (MaxHistory - k)) * DayTicks + 12 * HourTicks,
         lead |-> 40, boulder |-> 60]]

\* what the history resource can hold when a fetch is answered: the log as
\* far as the collector has written it
ServerHistories == { SubSeq(ServerLog, 1, n) : n \in 0..MaxHistory }

\* status.json: absent or not fetched, a successful run, a failed run
StatusValues == {"null", "success", "failure"}

\* samples no run of the collector writes: the JSON value null, and an object
\* without a timestamp (new Date(undefined) is an invalid date)
NullEntry == [isNull |-> TRUE]
UndatedEntry == [lead |-> 40, boulder |-> 60]

isNullEntry(e) == DOMAIN e = {"isNull"}
hasDate(e) == "timestamp" \in DOMAIN e

\* a history resource with one malformed sample, last or first
MalformedHistories ==
    { Append(h, e) : h \in ServerHistories, e \in {NullEntry, UndatedEntry} }
    \cup { <<e>> \o h : h \in ServerHistories \ {<<>>}, e \in {NullEntry, UndatedEntry} }

\* "ok": both bodies parsed (status is null when its fetch failed);
\* "historyFail": network error, HTTP error or malformed JSON of the history;
\* "statusFail": the status body fails to parse after the history was stored
FetchOutcomes == {"ok", "historyFail", "statusFail"}

fetchData_stale(outcome, history, status, cached) ==
    [history |-> IF outcome = "ok" THEN history ELSE cached,
     status |-> IF outcome = "ok" THEN status ELSE "null",
     historyData |-> IF outcome = "historyFail" THEN cached ELSE history]

\* fetchData: the value it resolves to, and the global historyData after it
fetchData(outcome, history, status, cached) ==
    [history |-> IF outcome = "ok" THEN history ELSE <<>>,
     status |-> IF outcome = "ok" THEN status ELSE "null",
     historyData |-> IF outcome = "historyFail" THEN cached ELSE history]

\* latest.lead ?? '--'
valueText(v) == IF v = Null THEN "--" ELSE "value"

\* updateCurrentStatus: the texts of the two status cards and of the
\* last-updated line (the age of the last run is left out)
updateCurrentStatus(data, status) ==
    IF Len(data) = 0
    THEN [leadValue |-> "--", boulderValue |-> "--", lastUpdated |-> "No data available"]
    ELSE [leadValue |-> valueText(data[Len(data)].lead),
          boulderValue |-> valueText(data[Len(data)].boulder),
          lastUpdated |-> IF status = "failure" THEN "Error" ELSE "Updated"]

\* latest.lead throws a TypeError when the latest entry is null
updateCurrentStatusThrows(data) ==
    Len(data) > 0 /\ isNullEntry(data[Len(data)])

\* groupDataByDay, the first statement of updateChart that reads the data:
\* entry.timestamp throws a TypeError on a null entry, toISOString a
\* RangeError on an invalid date
groupDataByDayThrows(data) ==
    \E k \in 1..Len(data) : isNullEntry(data[k]) \/ ~hasDate(data[k])

\* entry.timestamp throws a TypeError on a null entry; getHours of an invalid
\* date is NaN and throws nothing
updateBestTimesThrows(data) ==
    \E k \in 1..Len(data) : isNullEntry(data[k])

\* new Date(entry.timestamp).getHours(), NaN (Null) for an invalid date
hourOf(entry) == IF hasDate(entry) THEN getHours(entry.timestamp) ELSE Null

\* updateBestTimes: the hours that have a non-null reading; the grid shows
\* the best four of them, or the placeholder when there is none
updateBestTimes(data) ==
    LET hourlyData == { hourOf(data[k]) :
                          k \in { j \in 1..Len(data) :
                                     data[j].lead # Null \/ data[j].boulder # Null } }
    IN IF hourlyData = {} THEN "Not enough data yet" ELSE "slots"

\* what refresh() puts on the page around the chart area; a text is ""
\* when the statement that writes it is not reached
renderPage(data, status) ==
    IF updateCurrentStatusThrows(data)
    THEN NoPage
    ELSE LET cards == updateCurrentStatus(data, status)
         IN [leadValue |-> cards.leadValue, boulderValue |-> cards.boulderValue,
             lastUpdated |-> cards.lastUpdated,
             timesGrid |-> IF updateBestTimesThrows(data) THEN ""
                           ELSE updateBestTimes(data)]

\* pixel positions inside the chart area, as distances from the left edge
HoverOffsets ==
    { 0, 90 * MinuteTicks + 1, 780 * MinuteTicks }

ActiveCount(cs) == Cardinality({ i \in 1..Len(cs) : cs[i].crosshair.active })

\* a rebuild of the registry, with the number of cursors Active before it
RebuildEvent(type) ==
    [NoEvent EXCEPT !.type = type, !.activeBefore = ActiveCount(charts)]

\* the zones the page is opened in: the gym's own and one west of UTC
DashTimeZones == TimeZones \ {0}

InitDash ==
    /\ tz \in DashTimeZones
    /\ now = Today * DayTicks + StartHour * HourTicks
    /\ historyData = <<>>
    /\ charts = <<>>
    /\ currentRange = "1d"
    /\ pending = 1
    /\ destroyed = {}
    /\ lastEvent = NoEvent
    /\ normCall = NoNormCall
    /\ interpCall = NoInterpCall
    /\ maxCall = NoMaxCall
    /\ clampCall = NoClampCall
    /\ visibleDatasets = AllVisible
    /\ refreshes = NoRefreshes
    /\ IdleCollector

\* the registry and the Chart bookkeeping after updateChart(data)
Rebuild(range, data) ==
    /\ charts' = updateChart(charts, range, data)
    /\ destroyed' = ChartIds(charts)

\* updateChart(data) when groupDataByDay throws: the registry is cleared by
\* then, and the catch puts the error message into the chart area
RebuildFailed ==
    /\ charts' = clearRegistry(charts)
    /\ destroyed' = ChartIds(charts)

\* refresh(), up to the suspension in fetchData (button click or timer)
RefreshStart ==
    /\ pending < MaxPending
    /\ pending' = pending + 1
    /\ destroyed' = {}
    /\ lastEvent' = [NoEvent EXCEPT !.type = "refreshStart"]
    /\ UNCHANGED <<tz, now, historyData, charts, currentRange,
                   normCall, interpCall, maxCall, clampCall, visibleDatasets, refreshes,
                   collectorVars>>

\* fetchData resolves and refresh() runs to its end.  outcome "ok": both
\* resources parsed; "historyFail": the history fetch failed; "statusFail":
\* the status body failed to parse after the history was stored
FetchDone(outcome, history, status) ==
    LET result == fetchData(outcome, history, status, historyData)
        statusThrows == updateCurrentStatusThrows(result.history)
        chartThrows == groupDataByDayThrows(result.history)
    IN /\ pending > 0
       /\ pending' = pending - 1
       /\ historyData' = result.historyData
       /\ IF statusThrows
          THEN charts' = charts /\ destroyed' = {}
          ELSE IF chartThrows
               THEN RebuildFailed
               ELSE Rebuild(currentRange, result.history)
       /\ lastEvent' = [RebuildEvent("refresh") EXCEPT
                           !.outcome = outcome,
                           !.fetched = result.history,
                           !.page = renderPage(result.history, result.status),
                           !.caught = ~statusThrows /\ chartThrows,
                           !.escaped = statusThrows
                                       \/ updateBestTimesThrows(result.history)]
    /\ UNCHANGED <<tz, now, currentRange, normCall, interpCall, maxCall, clampCall, visibleDatasets, refreshes,
                   collectorVars>>

handleFilterClick(range) ==
    /\ currentRange' = range
    /\ IF groupDataByDayThrows(historyData)
       THEN RebuildFailed
       ELSE Rebuild(range, historyData)
    /\ lastEvent' = [RebuildEvent("filter") EXCEPT
                        !.caught = groupDataByDayThrows(historyData)]
    /\ UNCHANGED <<tz, now, historyData, pending, normCall, interpCall, maxCall, clampCall, visibleDatasets, refreshes,
                   collectorVars>>

\* a pointer event delivered to the interpolation plugin of chart c
PointerEvent(c, type, offset, inChartArea) ==
    LET time == IF type = "mousemove" /\ inChartArea
                THEN charts[c].xMin + offset ELSE Null
    IN /\ charts[c].type = "line"
       /\ charts' = afterEvent(charts, c, type, time, inChartArea)
       /\ lastEvent' = [NoEvent EXCEPT
                           !.type = type,
                           !.chart = IF time = Null THEN 0 ELSE charts[c].id,
                           !.time = time,
                           !.inChartArea = inChartArea,
                           !.activeBefore = IF type = "mouseout"
                                            THEN ActiveCount(charts) ELSE 0]
       /\ destroyed' = {}
       /\ UNCHANGED <<tz, now, historyData, currentRange, pending,
                      normCall, interpCall, maxCall, clampCall, visibleDatasets, refreshes,
                   collectorVars>>

MouseMove(c, offset, inChartArea) == PointerEvent(c, "mousemove", offset, inChartArea)

MouseOut(c, inChartArea) == PointerEvent(c, "mouseout", 0, inChartArea)

spliceDrillDown_keep(cs, index) == cs

\* charts.splice(index, 1)
spliceDrillDown(cs, index) ==
    [j \in 1..(Len(cs) - 1) |-> IF j < index THEN cs[j] ELSE cs[j + 1]]

\* renderDrillDownDayView: the registry once the drill-down chart of dayData
\* has taken the place of the first chart found in a drill-down wrapper
renderDrillDownDayView(cs, dayData) ==
    LET found == { i \in 1..Len(cs) : cs[i].drillDown }
        index == CHOOSE i \in found : \A j \in found : i <= j
        kept == IF found # {} THEN spliceDrillDown(cs, index) ELSE cs
    IN Append(kept, DayChart(DrillDownChartId(cs), dayData.dayEntries,
                             dayData.dateStr, TRUE))

\* createMaxChart.onClick on the bar element of day k (a day without a peak
\* has no bar element), then onDayClick and renderDrillDownDayView
BarClick(k) ==
    /\ Len(charts) > 0
    /\ charts[1].type = "bar"
    /\ charts[1].bars[k].maxLead # Null \/ charts[1].bars[k].maxBoulder # Null
    /\ Len(charts[1].bars[k].dayEntries) > 0
    /\ LET found == { i \in 1..Len(charts) : charts[i].drillDown }
       IN /\ charts' = renderDrillDownDayView(charts, charts[1].bars[k])
          /\ destroyed' = IF found = {} THEN {}
                          ELSE { charts[CHOOSE i \in found :
                                          \A j \in found : i <= j].id }
    /\ lastEvent' = [NoEvent EXCEPT !.type = "barClick",
                                    !.dateStr = charts[1].bars[k].dateStr]
    /\ UNCHANGED <<tz, now, historyData, currentRange, pending, normCall, interpCall, maxCall, clampCall, visibleDatasets, refreshes,
                   collectorVars>>

\* time passes
Tick ==
    /\ now < Today * DayTicks + (StartHour + MaxTicks * TickHours) * HourTicks
    /\ now' = now + TickHours * HourTicks
    /\ destroyed' = {}
    /\ lastEvent' = [NoEvent EXCEPT !.type = "tick"]
    /\ UNCHANGED <<tz, historyData, charts, currentRange, pending,
                   normCall, interpCall, maxCall, clampCall, visibleDatasets, refreshes,
                   collectorVars>>

NextDash ==
    \/ RefreshStart
    \/ \E outcome \in FetchOutcomes :
          \E history \in IF outcome = "historyFail" THEN {<<>>} ELSE ServerHistories,
             status \in IF outcome = "ok" THEN StatusValues ELSE {"null"} :
              FetchDone(outcome, history, status)
    \/ \E range \in RangeIds : handleFilterClick(range)
    \/ \E c \in 1..Len(charts), inChartArea \in BOOLEAN :
          \E offset \in IF inChartArea THEN HoverOffsets ELSE {0} :
              MouseMove(c, offset, inChartArea)
    \/ \E c \in 1..Len(charts), inChartArea \in BOOLEAN : MouseOut(c, inChartArea)
    \/ \E k \in 1..(IF Len(charts) > 0 THEN Len(charts[1].bars) ELSE 0) : BarClick(k)
    \/ Tick

SpecDash == InitDash /\ [][NextDash]_vars

----------------------------------------------------------------------------
(* The view selection alone: refreshes and filter clicks, with any of the  *)
(* identifiers a filter button may carry                                   *)

NextView ==
    \/ RefreshStart
    \/ \E outcome \in FetchOutcomes :
          \E history \in IF outcome = "historyFail" THEN {<<>>} ELSE ServerHistories,
             status \in IF outcome = "ok" THEN StatusValues ELSE {"null"} :
              FetchDone(outcome, history, status)
    \/ \E range \in ButtonRanges : handleFilterClick(range)

SpecView == InitDash /\ [][NextView]_vars

----------------------------------------------------------------------------
(* Refreshes that overlap.  Each refresh() call suspended in fetchData is  *)
(* followed on its own: the server answers its fetch with the history it  *)
(* holds at that time, and the answer reaches the page at some later time, *)
(* in any order with the answers of the other calls.  Filter clicks may    *)
(* come in between.                                                        *)

MaxRefreshes == 2         \* refresh() calls made in one run, the initial load included

\* a refresh() call suspended in fetchData; range is the mode selected when
\* it was made
NewFetch(rank) ==
    [rank |-> rank, range |-> currentRange, answered |-> FALSE,
     outcome |-> "none", history |-> <<>>]

InitRace ==
    /\ tz = 1
    /\ now = Today * DayTicks + StartHour * HourTicks
    /\ historyData = <<>>
    /\ charts = <<>>
    /\ currentRange = "1d"
    /\ pending = 1
    /\ destroyed = {}
    /\ lastEvent = NoEvent
    /\ normCall = NoNormCall
    /\ interpCall = NoInterpCall
    /\ maxCall = NoMaxCall
    /\ clampCall = NoClampCall
    /\ visibleDatasets = AllVisible
    /\ refreshes = [NoRefreshes EXCEPT !.started = 1, !.inFlight = <<NewFetch(1)>>]
    /\ IdleCollector

\* refresh(), up to the suspension in fetchData (button click or timer)
StartRefresh ==
    /\ refreshes.started < MaxRefreshes
    /\ refreshes' = [refreshes EXCEPT
                        !.started = @ + 1,
                        !.inFlight = Append(@, NewFetch(refreshes.started + 1))]
    /\ pending' = pending + 1
    /\ destroyed' = {}
    /\ lastEvent' = [NoEvent EXCEPT !.type = "refreshStart"]
    /\ UNCHANGED <<tz, now, historyData, charts, currentRange,
                   normCall, interpCall, maxCall, clampCall, visibleDatasets,
                   collectorVars>>

\* the fetches of call k are answered: the history resource holds what the
\* collector has written by then, which is no less than it held at an
\* earlier answer
AnswerFetch(k, outcome, history) ==
    /\ ~refreshes.inFlight[k].answered
    /\ outcome # "historyFail" => Len(history) >= refreshes.served
    /\ refreshes' = [refreshes EXCEPT
                        !.inFlight[k] = [@ EXCEPT !.answered = TRUE,
                                                  !.outcome = outcome,
                                                  !.history = history],
                        !.served = IF outcome # "historyFail" THEN Len(history) ELSE @]
    /\ destroyed' = {}
    /\ lastEvent' = [NoEvent EXCEPT !.type = "response"]
    /\ UNCHANGED <<tz, now, historyData, charts, currentRange, pending,
                   normCall, interpCall, maxCall, clampCall, visibleDatasets,
                   collectorVars>>

rebuildRange_atStart(fetch) == fetch.range

\* updateChart reads the global currentRange when refresh() calls it
rebuildRange(fetch) == currentRange

\* the calls in flight without call k
withoutCall(inFlight, k) ==
    [j \in 1..(Len(inFlight) - 1) |-> IF j < k THEN inFlight[j] ELSE inFlight[j + 1]]

\* fetchData of call k resolves with what fetch holds, and this refresh()
\* runs to its end
Resume(k, fetch) ==
    LET result == fetchData(fetch.outcome, fetch.history,
                            IF fetch.outcome = "ok" THEN "success" ELSE "null",
                            historyData)
    IN /\ pending' = pending - 1
       /\ historyData' = result.historyData
       /\ Rebuild(rebuildRange(fetch), result.history)
       /\ lastEvent' = [RebuildEvent("refresh") EXCEPT
                           !.outcome = fetch.outcome,
                           !.fetched = result.history,
                           !.page = renderPage(result.history, result.status),
                           !.rank = fetch.rank,
                           !.startedIn = fetch.range]
       /\ refreshes' = [refreshes EXCEPT
                           !.inFlight = withoutCall(@, k),
                           !.newest = IF fetch.rank > @.rank
                                      THEN [rank |-> fetch.rank,
                                            outcome |-> fetch.outcome,
                                            fetched |-> result.history]
                                      ELSE @]
       /\ UNCHANGED <<tz, now, currentRange, normCall, interpCall, maxCall,
                      clampCall, visibleDatasets, collectorVars>>

\* the answer given to call k reaches the page
CompleteRefresh(k) ==
    /\ refreshes.inFlight[k].answered
    /\ Resume(k, refreshes.inFlight[k])

\* call k is answered and the answer reaches the page at once
FetchResolves(k, outcome, history) ==
    /\ ~refreshes.inFlight[k].answered
    /\ Resume(k, [refreshes.inFlight[k] EXCEPT !.answered = TRUE,
                                                !.outcome = outcome,
                                                !.history = history])

\* overlapping refreshes in one mode, their answers delivered in any order
NextRace ==
    \/ StartRefresh
    \/ \E k \in 1..Len(refreshes.inFlight), outcome \in FetchOutcomes :
          \E history \in IF outcome = "historyFail" THEN {<<>>} ELSE ServerHistories :
              AnswerFetch(k, outcome, history)
    \/ \E k \in 1..Len(refreshes.inFlight) : CompleteRefresh(k)

SpecRace == InitRace /\ [][NextRace]_vars

\* overlapping refreshes that resolve in any order, and mode switches at any
\* point in between
NextSwitch ==
    \/ StartRefresh
    \/ \E k \in 1..Len(refreshes.inFlight), outcome \in FetchOutcomes :
          \E history \in IF outcome = "historyFail" THEN {<<>>} ELSE ServerHistories :
              FetchResolves(k, outcome, history)
    \/ \E range \in RangeIds : handleFilterClick(range)

SpecSwitch == InitRace /\ [][NextSwitch]_vars

----------------------------------------------------------------------------
(* The dataset toggles of the two status cards, with the steps that make   *)
(* charts: refreshes, filter clicks and bar clicks                         *)

\* toggleDataset(type), the click handler of the lead and boulder cards
toggleDataset(type) ==
    LET visible == ~visibleDatasets[type]
    IN /\ visibleDatasets' = [visibleDatasets EXCEPT ![type] = visible]
       /\ charts' = [i \in 1..Len(charts) |->
                        setDatasetVisibility(charts[i], type, visible)]
       /\ destroyed' = {}
       /\ lastEvent' = [NoEvent EXCEPT !.type = "toggle", !.series = type]
       /\ UNCHANGED <<tz, now, historyData, currentRange, pending,
                      normCall, interpCall, maxCall, clampCall, refreshes,
                      collectorVars>>

NextToggle ==
    \/ \E type \in {"lead", "boulder"} : toggleDataset(type)
    \/ RefreshStart
    \/ \E history \in ServerHistories : FetchDone("ok", history, "success")
    \/ \E range \in RangeIds : handleFilterClick(range)
    \/ \E k \in 1..(IF Len(charts) > 0 THEN Len(charts[1].bars) ELSE 0) : BarClick(k)

SpecToggle == InitDash /\ [][NextToggle]_vars

----------------------------------------------------------------------------
(* Specification of the pure functions of the collector: Init draws the    *)
(* clock, the timezone and an array of entries; each function is applied   *)
(* once.                                                                   *)

MaxEntries == 2           \* longest array handed to pruneOldData

\* a day of standard hours, the exception days around it and those at the
\* turn of the year
CollectDays == {Today - 1, Today, Today + 1, Today + 7, Today + 8}
CollectHours == {8, 9, 13, 14, 21, 22}

\* ages of the entries at the call: beyond, at and just inside a retention
\* of seven days, two days old, and written at this instant
EntryAges == {8 * DayTicks, 7 * DayTicks, 7 * DayTicks - 1, 2 * DayTicks, 0}

\* arrays of entries, in any order
EntryArrays(t) ==
    UNION { [1..k -> { [timestamp |-> t - age, lead |-> 40, boulder |-> 60,
                        overall |-> 50] : age \in EntryAges }] : k \in 0..MaxEntries }

\* the page is not open
IdleDashboard ==
    /\ historyData = <<>>
    /\ charts = <<>>
    /\ currentRange = "1d"
    /\ pending = 0
    /\ destroyed = {}
    /\ lastEvent = NoEvent
    /\ normCall = NoNormCall
    /\ interpCall = NoInterpCall
    /\ maxCall = NoMaxCall
    /\ clampCall = NoClampCall
    /\ visibleDatasets = AllVisible
    /\ refreshes = NoRefreshes

InitTools ==
    /\ tz \in TimeZones
    /\ now \in { d * DayTicks + h * HourTicks : d \in CollectDays, h \in CollectHours }
    /\ dataFile \in { ArrayFile(data) : data \in EntryArrays(now) }
    /\ statusFile = NoStatus
    /\ backups = {}
    /\ run = NoRun
    /\ call = NoCall
    /\ IdleDashboard

\* pruneOldData(data, maxDays), and once more on its result
Prune(maxDays) ==
    /\ call.fn = "none"
    /\ call' = [NoCall EXCEPT
                   !.fn = "pruneOldData",
                   !.input = dataFile.data,
                   !.maxDays = maxDays,
                   !.out = pruneOldData(dataFile.data, maxDays),
                   !.again = pruneOldData(pruneOldData(dataFile.data, maxDays), maxDays)]
    /\ UNCHANGED <<tz, now, dashVars, dataFile, statusFile, backups, run>>

\* isGymOpen(), for the current date
GymOpen ==
    /\ call.fn = "none"
    /\ call' = [NoCall EXCEPT !.fn = "isGymOpen", !.open = isGymOpen(now)]
    /\ UNCHANGED <<tz, now, dashVars, dataFile, statusFile, backups, run>>

\* MAX_DAYS of collect.js and the value its README proposes
Retentions == {1, MAX_DAYS, 14}

NextTools ==
    \/ \E maxDays \in Retentions : Prune(maxDays)
    \/ GymOpen

SpecTools == InitTools /\ [][NextTools]_vars

----------------------------------------------------------------------------
(* The collector as a state machine: runs of collect() at the instants of  *)
(* a schedule, and damage done to the history file between runs            *)

MaxStored == 2            \* entries in the history file before a run
MaxBackups == 1           \* backups of a damaged history file

\* the machines the collector runs on: UTC and the gym's own zone
CollectorZones == {0, 1}

\* hours after midnight (UTC) of the first day at which a run may start:
\* during and after the opening hours of that day, and the same a week later
RunHours == {10, 12, 15, 7 * 24 + 11, 7 * 24 + 16}
RunTimes == { Today * DayTicks + h * HourTicks : h \in RunHours }

container(text, percentage) ==
    [inContainer |-> TRUE, text |-> text, percentage |-> percentage]
loose(text, percentage) ==
    [inContainer |-> FALSE, text |-> text, percentage |-> percentage]

\* answers of the gym's site: both bars, both at zero, a bar outside a
\* container, no known label, a percentage that is no number, and a request
\* that fails
Pages ==
    { Answer(<<container("seil", 41), container("boulder", 60)>>),
      Answer(<<container("seil", 0), container("boulder", 0)>>),
      Answer(<<loose("boulder", 60)>>),
      Answer(<<container("other", 10)>>),
      Answer(<<container("seil", NaN), container("boulder", 60)>>),
      NoAnswer }

InitCollect ==
    /\ tz \in CollectorZones
    /\ now = Today * DayTicks + 10 * HourTicks
    /\ IdleCollector
    /\ IdleDashboard

\* the clock moves on to a later instant of the schedule
Advance(t) ==
    /\ t > now
    /\ now' = t
    /\ run' = NoRun
    /\ UNCHANGED <<tz, dashVars, dataFile, statusFile, backups, call>>

\* the history file is damaged from outside: truncated, or replaced by JSON
\* that is no array
Damage(file) ==
    /\ dataFile.kind = "array"
    /\ Cardinality(backups) < MaxBackups
    /\ dataFile' = file
    /\ run' = NoRun
    /\ UNCHANGED <<tz, now, dashVars, statusFile, backups, call>>

push_front(history, newData) == <<newData>> \o history

\* history.push(newData)
push(history, newData) == Append(history, newData)

\* one run of collect(); page is what the gym's site answers if asked, and
\* renameOk whether the rename of a corrupt history file succeeds.  The name
\* of a backup ends in Date.now(), which is later in every later run: the
\* instant of the model and the number of backups made before
collect(page, renameOk) ==
    LET history == readHistory(dataFile)
        backedUp == readFails(dataFile) /\ renameOk
        fileRead == IF backedUp THEN MissingFile ELSE dataFile
        isOpen == isGymOpen(now)
        throws == isOpen /\ scrapeThrows(page)
        skips == ~isOpen /\ isLastZero(history)
        newData == IF isOpen THEN scrapeOccupancy(page) ELSE closedMarker
        prunedHistory == pruneOldData(push(history, newData), MAX_DAYS)
    IN /\ Len(history) <= MaxStored
       /\ backups' = IF backedUp
                     THEN backups \cup {[name |-> <<now, Cardinality(backups)>>,
                                          content |-> dataFile]}
                     ELSE backups
       /\ dataFile' = IF throws \/ skips THEN fileRead
                      ELSE ArrayFile(stringify(prunedHistory))
       /\ statusFile' =
            IF throws
            THEN [lastRun |-> now, success |-> FALSE, message |-> errorMessage(page)]
            ELSE IF skips THEN statusFile
            ELSE [lastRun |-> now, success |-> TRUE,
                  message |-> IF isOpen THEN "Collection successful"
                              ELSE "Gym closed (0 recorded)"]
       /\ run' = [outcome |-> IF throws THEN "thrown"
                              ELSE IF skips THEN "skipped" ELSE "written",
                  history |-> history, renameOk |-> renameOk, backedUp |-> backedUp,
                  isOpen |-> isOpen, scraped |-> isOpen,
                  parsed |-> IF isOpen /\ page.ok
                             THEN parseOccupancyData(page.html) ELSE NoParse,
                  newData |-> IF throws \/ skips THEN <<>> ELSE newData]
       /\ UNCHANGED <<tz, now, dashVars, call>>

\* runs of the collector on a history file that nothing else touches
NextCollect ==
    \/ \E t \in RunTimes : Advance(t)
    \/ \E page \in IF isGymOpen(now) THEN Pages ELSE {NoAnswer} :
          collect(page, TRUE)

SpecCollect == InitCollect /\ [][NextCollect]_vars

\* runs of the collector on a history file that may be damaged between them
NextDamaged ==
    \/ \E t \in RunTimes : Advance(t)
    \/ \E file \in {CorruptFile(dataFile.data), ObjectFile} : Damage(file)
    \/ \E page \in IF isGymOpen(now)
                   THEN {Answer(<<container("seil", 41), container("boulder", 60)>>),
                         Answer(<<container("other", 10)>>),
                         NoAnswer}
                   ELSE {NoAnswer},
          renameOk \in IF readFails(dataFile) THEN BOOLEAN ELSE {TRUE} :
            collect(page, renameOk)

SpecDamaged == InitCollect /\ [][NextDamaged]_vars

----------------------------------------------------------------------------
(* Specification of the label placement: the two plugins draw a label of   *)
(* a measured width at a pixel position                                    *)

\* chart areas: the left edge and the width of the plot, in pixels
PlotLefts == {0, 30}
PlotWidths == {24, 60}

\* ctx.measureText(text).width
TextWidths == {0, 7, 24, 31}

\* scales.x.getPixelForValue(time), as a distance from the left edge
PixelOffsets(width) == {-3, 0, 2, width \div 2, width - 2, width, width + 3}

InitLabels ==
    /\ tz = 0
    /\ now = Today * DayTicks
    /\ IdleDashboard
    /\ IdleCollector

\* interpolationPlugin.afterDraw: the labels of an active cursor
DrawCursorLabel(xPos, textWidth, left, right) ==
    /\ clampCall' = [plugin |-> "interpolation", xPos |-> xPos,
                     textWidth |-> textWidth, left |-> left, right |-> right,
                     out |-> clampTextX(xPos, textWidth, left, right)]
    /\ UNCHANGED <<tz, now, historyData, charts, currentRange, pending, destroyed,
                   lastEvent, normCall, interpCall, maxCall, visibleDatasets, refreshes,
                   collectorVars>>

\* peakLinesPlugin.afterDatasetsDraw: the labels of a peak inside the area
DrawPeakLabel(xPos, textWidth, left, right) ==
    /\ xPos >= left /\ xPos <= right
    /\ clampCall' = [plugin |-> "peakLines", xPos |-> xPos,
                     textWidth |-> textWidth, left |-> left, right |-> right,
                     out |-> clampTextX(xPos, textWidth, left, right)]
    /\ UNCHANGED <<tz, now, historyData, charts, currentRange, pending, destroyed,
                   lastEvent, normCall, interpCall, maxCall, visibleDatasets, refreshes,
                   collectorVars>>

NextLabels ==
    \E left \in PlotLefts, width \in PlotWidths, textWidth \in TextWidths :
        \E offset \in PixelOffsets(width) :
            \/ DrawCursorLabel(left + offset, textWidth, left, left + width)
            \/ DrawPeakLabel(left + offset, textWidth, left, left + width)

SpecLabels == InitLabels /\ [][NextLabels]_vars

----------------------------------------------------------------------------
(* Refreshes and filter clicks when the history resource may hold a        *)
(* malformed sample                                                        *)

NextFaulty ==
    \/ RefreshStart
    \/ \E history \in ServerHistories \cup MalformedHistories,
          status \in StatusValues :
            FetchDone("ok", history, status)
    \/ \E range \in RangeIds : handleFilterClick(range)

SpecFaulty == InitDash /\ [][NextFaulty]_vars

----------------------------------------------------------------------------
(* Properties of normalizeDayData, stated on its last call *)

NC_raw == normCall.rawData
NC_openTime == normCall.out.minTime
NC_closeTime == normCall.out.maxTime

\* the points of the returned series
NC_points ==
    [k \in 1..Len(normCall.out.labels) |->
        [timestamp |-> normCall.out.labels[k],
         lead |-> normCall.out.leadData[k],
         boulder |-> normCall.out.boulderData[k]]]

\* the returned series is the bucket with the given synthesized points around it
NC_shape(leading, trailing) ==
    NC_points = (IF leading THEN <<ZeroPoint(NC_openTime)>> ELSE <<>>)
                \o NC_raw
                \o (IF trailing THEN <<ZeroPoint(NC_closeTime)>> ELSE <<>>)

NC_leadingPrepended == NC_shape(TRUE, TRUE) \/ NC_shape(TRUE, FALSE)
NC_trailingAppended == NC_shape(TRUE, TRUE) \/ NC_shape(FALSE, TRUE)

\* the local calendar day whose opening hours the series spans, and today
NC_day == toDateString(ParseDateStr(normCall.dateStr))
NC_currentDate == toDateString(now)

NC_trailingCondition ==
    \/ NC_day < NC_currentDate
    \/ NC_day = NC_currentDate /\ now >= NC_closeTime

\* timestamp of the last point present before the trailing point is considered
NC_lastExisting ==
    IF Len(NC_raw) > 0 THEN NC_raw[Len(NC_raw)].timestamp ELSE NC_openTime

\* C1: the trailing point (closeTime,0,0) is appended only if the day is a
\* past day or it is today at/after closeTime, and the last existing point
\* lies before closeTime; today before closeTime it is never appended.
C1_TrailingOnlyWhenDue ==
    normCall.called =>
        /\ NC_trailingAppended =>
              NC_trailingCondition /\ NC_lastExisting < NC_closeTime
        /\ (NC_day = NC_currentDate /\ now < NC_closeTime) => ~NC_trailingAppended

C1_Witness ==
    /\ normCall.called
    /\ NC_trailingAppended
    /\ NC_day = NC_currentDate
    /\ Len(NC_raw) > 0

\* C2: exactly one point (openTime,0,0) is prepended iff the bucket is empty
\* or its first sample lies strictly after openTime; otherwise the first
\* output point is the first sample; every sample is kept unchanged, in order.
C2_LeadingPointIff ==
    normCall.called =>
        /\ NC_leadingPrepended <=>
              (Len(NC_raw) = 0 \/ NC_raw[1].timestamp > NC_openTime)
        /\ ~(Len(NC_raw) = 0 \/ NC_raw[1].timestamp > NC_openTime) =>
              NC_points[1] = NC_raw[1]
        /\ \E leading, trailing \in BOOLEAN : NC_shape(leading, trailing)

C2_Witness ==
    /\ normCall.called
    /\ NC_leadingPrepended
    /\ Len(NC_raw) > 0
    /\ NC_raw[1].timestamp > NC_openTime

\* C3: a day without samples yields exactly (openTime,0,0), (closeTime,0,0)
\* when the trailing condition applies and exactly (openTime,0,0) otherwise.
C3_EmptyDay ==
    (normCall.called /\ Len(NC_raw) = 0) =>
        IF NC_trailingCondition
        THEN NC_points = <<ZeroPoint(NC_openTime), ZeroPoint(NC_closeTime)>>
        ELSE NC_points = <<ZeroPoint(NC_openTime)>>

C3_Witness ==
    /\ normCall.called
    /\ Len(NC_raw) = 0
    /\ NC_trailingCondition
    /\ Len(NC_points) = 2

NC_ordered ==
    \A k \in 1..(Len(NC_points) - 1) :
        NC_points[k].timestamp <= NC_points[k + 1].timestamp

NC_spansHours ==
    /\ Len(NC_points) > 0
    /\ NC_points[1].timestamp <= NC_openTime
    /\ NC_trailingCondition => NC_points[Len(NC_points)].timestamp >= NC_closeTime

----------------------------------------------------------------------------
(* Properties of the cursor synchroniser *)

\* local time of day of an instant, in whole minutes
CS_minuteOfDay(t) == ((t + tz * HourTicks) % DayTicks) \div MinuteTicks

\* the date of chart b combined with the hour:minute of instant t
CS_mapped(b, t) ==
    toDateString(b.xMin) * DayTicks - tz * HourTicks
        + CS_minuteOfDay(t) * MinuteTicks

\* C5: after a pointer-move inside the plotting area of chart A at time t,
\* A is Active at t and every other registered chart B is Active at B's own
\* date combined with the hour:minute of t if that instant lies within B's
\* bounds, and Idle otherwise.
C5_MoveSyncsPeers ==
    (lastEvent.type = "mousemove" /\ lastEvent.inChartArea) =>
        \E a \in 1..Len(charts) :
            /\ charts[a].id = lastEvent.chart
            /\ charts[a].crosshair = [active |-> TRUE, time |-> lastEvent.time]
            /\ \A b \in 1..Len(charts) :
                  b # a =>
                     LET m == CS_mapped(charts[b], lastEvent.time)
                     IN IF m >= charts[b].xMin /\ m <= charts[b].xMax
                        THEN charts[b].crosshair = [active |-> TRUE, time |-> m]
                        ELSE ~charts[b].crosshair.active

C5_Witness ==
    /\ lastEvent.type = "mousemove"
    /\ lastEvent.inChartArea
    /\ lastEvent.time % HourTicks # 0
    /\ lastEvent.time % MinuteTicks # 0
    /\ \E b \in 1..Len(charts) :
          /\ charts[b].id # lastEvent.chart
          /\ charts[b].crosshair.active
          /\ charts[b].crosshair.time # lastEvent.time

\* C6: after a pointer-leave on a chart, inside or outside its plotting
\* area, every registered chart is Idle.
C6_LeaveClearsAll ==
    lastEvent.type = "mouseout" =>
        \A i \in 1..Len(charts) : ~charts[i].crosshair.active

C6_Witness ==
    /\ lastEvent.type = "mouseout"
    /\ ~lastEvent.inChartArea
    /\ lastEvent.activeBefore >= 2
    /\ Len(charts) >= 2

\* C7: between handlers all Active cursors show the same hour:minute and
\* each lies within the bounds of its own chart.
C7_ActiveCursorsAgree ==
    \A i \in 1..Len(charts) :
        charts[i].crosshair.active =>
            /\ charts[i].crosshair.time >= charts[i].xMin
            /\ charts[i].crosshair.time <= charts[i].xMax
            /\ \A j \in 1..Len(charts) :
                  charts[j].crosshair.active =>
                      CS_minuteOfDay(charts[i].crosshair.time)
                          = CS_minuteOfDay(charts[j].crosshair.time)

C7_Witness ==
    \E i, j \in 1..Len(charts) :
        /\ charts[i].crosshair.active
        /\ charts[j].crosshair.active
        /\ charts[i].dateStr # charts[j].dateStr
        /\ charts[i].crosshair.time % MinuteTicks # 0
        /\ charts[j].crosshair.time % MinuteTicks = 0

\* C8: a mode switch or a data refresh destroys every chart that was
\* registered and removes it from the registry; the registry then holds only
\* newly constructed charts, all with an Idle cursor.
C8_RebuildLeavesNothingStale ==
    [][lastEvent'.type \in {"filter", "refresh"} =>
          /\ \A i \in 1..Len(charts) :
                /\ charts[i].id \in destroyed'
                /\ charts[i].id \notin ChartIds(charts')
          /\ \A j \in 1..Len(charts') :
                /\ ~charts'[j].crosshair.active
                /\ charts'[j].crosshair = IdleCrosshair
                /\ charts'[j].id \notin destroyed'
                /\ charts'[j].id \notin ChartIds(charts)]_vars

C8_Witness ==
    /\ lastEvent.type \in {"filter", "refresh"}
    /\ lastEvent.activeBefore >= 2
    /\ Cardinality(destroyed) >= 2
    /\ Len(charts) >= 2

----------------------------------------------------------------------------
(* Properties of getInterpolatedValues, stated on its last call *)

IC_labels == normCall.out.labels

\* a fraction equals the integer or null v
IC_equals(fraction, v) == v # Null /\ fraction[1] = v * fraction[2]

\* C9: a query time outside [first timestamp, last timestamp] of the series
\* yields null.
C9_NoExtrapolation ==
    (/\ interpCall.called
     /\ Len(IC_labels) > 0
     /\ \/ interpCall.time < IC_labels[1]
        \/ interpCall.time > IC_labels[Len(IC_labels)])
    => interpCall.values.isNull

C9_Witness ==
    /\ interpCall.called
    /\ Len(IC_labels) >= 2
    /\ interpCall.time > IC_labels[Len(IC_labels)]
    /\ interpCall.values.isNull

\* C10: a query at exactly the timestamp of a point of the series returns
\* that point's own lead and boulder values, also when the series has a
\* single point.
C10_ExactAtSample_Claimed ==
    interpCall.called =>
        \A k \in 1..Len(IC_labels) :
            IC_labels[k] = interpCall.time =>
                /\ ~interpCall.values.isNull
                /\ interpCall.values.lead[1] =
                       normCall.out.leadData[k] * interpCall.values.lead[2]
                /\ interpCall.values.boulder[1] =
                       normCall.out.boulderData[k] * interpCall.values.boulder[2]

\* the series has points and the query time lies within [first, last]
IC_inBounds ==
    /\ Len(IC_labels) > 0
    /\ interpCall.time >= IC_labels[1]
    /\ interpCall.time <= IC_labels[Len(IC_labels)]

IC_brackets(i) ==
    IC_labels[i] <= interpCall.time /\ interpCall.time <= IC_labels[i + 1]

\* i is the first consecutive pair that brackets the query time
IC_firstPair(i) ==
    /\ IC_brackets(i)
    /\ \A j \in 1..(i - 1) : ~IC_brackets(j)

\* result = start + (end - start) * (t - tStart) / (tEnd - tStart), and
\* result = start when tStart = tEnd; stated for non-null endpoints
IC_linear(result, start, end, tStart, tEnd) ==
    (start # Null /\ end # Null) =>
        /\ result[2] > 0
        /\ IF tEnd = tStart
           THEN result[1] = start * result[2]
           ELSE result[1] * (tEnd - tStart) =
                    (start * (tEnd - tStart)
                        + (end - start) * (interpCall.time - tStart)) * result[2]

\* C11: for a query time inside the bounds of a series of two or more
\* points the first bracketing pair i, i+1 is used and lead and boulder are
\* each start + (end - start) * factor with
\* factor = (queryTime - t_start) / (t_end - t_start); when t_start = t_end
\* the factor is 0 and the result is the value at i.
C11_LinearInterpolation ==
    (interpCall.called /\ IC_inBounds /\ Len(IC_labels) >= 2) =>
        /\ ~interpCall.values.isNull
        /\ \E i \in 1..(Len(IC_labels) - 1) :
              /\ IC_firstPair(i)
              /\ IC_linear(interpCall.values.lead,
                           normCall.out.leadData[i], normCall.out.leadData[i + 1],
                           IC_labels[i], IC_labels[i + 1])
              /\ IC_linear(interpCall.values.boulder,
                           normCall.out.boulderData[i], normCall.out.boulderData[i + 1],
                           IC_labels[i], IC_labels[i + 1])

\* two samples share a timestamp, carry different values and are the pair used
C11_Witness ==
    /\ interpCall.called
    /\ ~interpCall.values.isNull
    /\ \E i \in 1..(Len(IC_labels) - 1) :
          /\ IC_firstPair(i)
          /\ IC_labels[i] = IC_labels[i + 1]
          /\ normCall.out.leadData[i] \notin {Null, 0}
          /\ normCall.out.leadData[i + 1] \notin {Null, normCall.out.leadData[i]}
          /\ interpCall.values.lead[1] =
                 normCall.out.leadData[i] * interpCall.values.lead[2]

\* a returned field is a number
IC_isNumber(fraction) == fraction[1] >= 0 /\ fraction[2] > 0

IC_isZero(fraction) == fraction[1] = 0 /\ fraction[2] > 0

\* C12: when an endpoint value of the bracketing pair is null the value
\* returned for that series is 0, whatever the factor; a returned lead or
\* boulder field is never null.
C12_NullEndpointGivesZero ==
    (interpCall.called /\ ~interpCall.values.isNull) =>
        /\ IC_isNumber(interpCall.values.lead)
        /\ IC_isNumber(interpCall.values.boulder)
        /\ \E i \in 1..(Len(IC_labels) - 1) :
              /\ IC_firstPair(i)
              /\ (normCall.out.leadData[i] = Null
                    \/ normCall.out.leadData[i + 1] = Null)
                 => IC_isZero(interpCall.values.lead)
              /\ (normCall.out.boulderData[i] = Null
                    \/ normCall.out.boulderData[i + 1] = Null)
                 => IC_isZero(interpCall.values.boulder)

\* a null lead next to a positive one, queried strictly between the two
C12_Witness ==
    /\ interpCall.called
    /\ ~interpCall.values.isNull
    /\ \E i \in 1..(Len(IC_labels) - 1) :
          /\ IC_firstPair(i)
          /\ IC_labels[i] < interpCall.time
          /\ interpCall.time < IC_labels[i + 1]
          /\ normCall.out.leadData[i] = Null
          /\ normCall.out.leadData[i + 1] > 0
          /\ IC_isZero(interpCall.values.lead)

----------------------------------------------------------------------------
(* Properties of the peaks, stated on the last call of calculatePeaksForDay *)
(* (made by the render functions on the bucket of the day) and of          *)
(* calculateDailyMax                                                       *)

\* positions of the samples of a day whose value counts for a peak
PK_qualifying(dayData, series) ==
    { k \in 1..Len(dayData) : dayData[k][series] # Null /\ dayData[k][series] > 0 }

\* max is the greatest qualifying value and time the timestamp of a sample
\* that holds it; both are null when nothing qualifies
PK_isPeak(dayData, series, max, time) ==
    IF PK_qualifying(dayData, series) = {}
    THEN max = Null /\ time = Null
    ELSE /\ \A k \in PK_qualifying(dayData, series) : dayData[k][series] <= max
         /\ \E k \in PK_qualifying(dayData, series) :
               dayData[k][series] = max /\ dayData[k].timestamp = time

PK_arePeaks(dayData, peaks) ==
    /\ PK_isPeak(dayData, "lead", peaks.maxLead, peaks.maxLeadTime)
    /\ PK_isPeak(dayData, "boulder", peaks.maxBoulder, peaks.maxBoulderTime)

\* C13: for the samples of a day and each series, the peak value is the
\* maximum over the samples whose value is non-null and > 0, the peak time is
\* the timestamp of a sample holding that value, and both are null when no
\* sample qualifies; this holds for calculatePeaksForDay and for every entry
\* of calculateDailyMax.
C13_PeakIgnoresZeroAndNull ==
    /\ normCall.called => PK_arePeaks(NC_raw, normCall.peaks)
    /\ maxCall.called =>
          \A k \in 1..Len(maxCall.out) :
              PK_arePeaks(maxCall.out[k].dayEntries, maxCall.out[k])

\* an entry of calculateDailyMax for a day with a zero and a null lead and a
\* positive boulder reading after a zero one
C13_Witness ==
    /\ maxCall.called
    /\ \E k \in 1..Len(maxCall.out) :
          LET e == maxCall.out[k]
          IN /\ Len(e.dayEntries) = 2
             /\ e.dayEntries[1].lead = 0
             /\ e.dayEntries[2].lead = Null
             /\ e.maxLead = Null
             /\ e.maxLeadTime = Null
             /\ e.dayEntries[1].boulder = 0
             /\ e.maxBoulder = e.dayEntries[2].boulder
             /\ e.maxBoulderTime = e.dayEntries[2].timestamp

\* time is the timestamp of the first sample, in bucket order, holding max
PK_isFirstOfMax(dayData, series, max, time) ==
    max # Null =>
        \E k \in 1..Len(dayData) :
            /\ dayData[k][series] = max
            /\ dayData[k].timestamp = time
            /\ \A j \in 1..(k - 1) : dayData[j][series] # max

PK_areFirstOfMax(dayData, peaks) ==
    /\ PK_isFirstOfMax(dayData, "lead", peaks.maxLead, peaks.maxLeadTime)
    /\ PK_isFirstOfMax(dayData, "boulder", peaks.maxBoulder, peaks.maxBoulderTime)

\* C14: when several samples of a day share the maximum of a series, the
\* peak time is the timestamp of the first of them in bucket order.
C14_FirstMaxWins ==
    /\ normCall.called => PK_areFirstOfMax(NC_raw, normCall.peaks)
    /\ maxCall.called =>
          \A k \in 1..Len(maxCall.out) :
              PK_areFirstOfMax(maxCall.out[k].dayEntries, maxCall.out[k])

\* two samples of the day share the maximum at different times
C14_Witness ==
    /\ normCall.called
    /\ Len(NC_raw) = 2
    /\ NC_raw[1].lead = normCall.peaks.maxLead
    /\ NC_raw[2].lead = normCall.peaks.maxLead
    /\ normCall.peaks.maxLead # Null
    /\ NC_raw[1].timestamp < NC_raw[2].timestamp
    /\ normCall.peaks.maxLeadTime = NC_raw[1].timestamp

----------------------------------------------------------------------------
(* Properties of the grouping by day, stated on the last call of           *)
(* groupDataByDay (made by updateChart) and of calculateDailyMax           *)

\* every sample of the bucket has the calendar date key in the local timezone
GD_localBucket(bucket, key) ==
    \A k \in 1..Len(bucket) : toDateString(bucket[k].timestamp) = key

\* C15: the day key under which groupDataByDay and the per-day filter of
\* calculateDailyMax file a sample is the sample's calendar date in the
\* local timezone (the one of openTime/closeTime and of 'today'); no sample
\* is in the bucket of another local calendar day.
C15_LocalDateKey_Claimed ==
    /\ normCall.called =>
          \A key \in DOMAIN normCall.groups :
              GD_localBucket(normCall.groups[key], key)
    /\ maxCall.called =>
          \A k \in 1..Len(maxCall.out) :
              GD_localBucket(maxCall.out[k].dayEntries, maxCall.out[k].dateStr)

\* the samples of data at the positions that f sends to key, in input order
GD_restrict(data, f, key) ==
    LET positions == [i \in 1..Len(data) |-> i]
        IsSent(i) == f[i] = key
        chosen == SelectSeq(positions, IsSent)
    IN [j \in 1..Len(chosen) |-> data[chosen[j]]]

\* C16: the buckets partition the input: each input sample is in exactly one
\* bucket, a bucket holds nothing else, and the samples of a bucket keep
\* their relative input order.
C16_GroupingPartitions ==
    normCall.called =>
        \E f \in [1..Len(historyData) -> DOMAIN normCall.groups] :
            \A key \in DOMAIN normCall.groups :
                normCall.groups[key] = GD_restrict(historyData, f, key)

\* two different samples that end in the same bucket
C16_Witness ==
    /\ normCall.called
    /\ Len(historyData) >= 2
    /\ \E key \in DOMAIN normCall.groups :
          /\ Len(normCall.groups[key]) >= 2
          /\ normCall.groups[key][1] # normCall.groups[key][2]
          /\ normCall.groups[key][1] = historyData[1]

----------------------------------------------------------------------------
(* Properties of the views, stated on the registry right after updateChart *)

\* the date key of today, as the render functions compute it
RG_todayKey == toISODate(now)

RG_afterUpdateChart == lastEvent.type \in {"filter", "refresh"}

\* n day charts: today and the n-1 days before it
RG_isDayGrid(cs, n) ==
    /\ Len(cs) = n
    /\ \A k \in 1..n :
          /\ cs[k].type = "line"
          /\ ~cs[k].drillDown
          /\ cs[k].dateStr = RG_todayKey - (k - 1)

\* one bar chart over n consecutive days ending today, oldest first
RG_isPeakBars(cs, n) ==
    /\ Len(cs) = 1
    /\ cs[1].type = "bar"
    /\ Len(cs[1].bars) = n
    /\ \A k \in 1..n : cs[1].bars[k].dateStr = RG_todayKey - (n - k)

\* C17: after updateChart the registry holds one day chart per day of the
\* window: 1 (today) in mode 1d, 2 (today, yesterday) in mode 2d, 7 (today
\* and the 6 days before) in mode 7d; in the peak-bar modes it holds one bar
\* chart whose categories are 7 or 30 consecutive days ending today, oldest
\* first.
C17_RegistryMatchesMode ==
    RG_afterUpdateChart =>
        /\ currentRange = "1d" => RG_isDayGrid(charts, 1)
        /\ currentRange = "2d" => RG_isDayGrid(charts, 2)
        /\ currentRange = "7d" => RG_isDayGrid(charts, 7)
        /\ currentRange = "maxWeek" => RG_isPeakBars(charts, 7)
        /\ currentRange = "maxMonth" => RG_isPeakBars(charts, 30)

C17_Witness ==
    /\ lastEvent.type = "refresh"
    /\ currentRange = "7d"
    /\ Len(charts) = 7
    /\ charts[1].dateStr = RG_todayKey
    /\ charts[7].dateStr = RG_todayKey - 6
    /\ Len(lastEvent.fetched) > 0

DD_count(cs) == Cardinality({ i \in 1..Len(cs) : cs[i].drillDown })

\* which chart objects are registered, for which day and in which wrapper
DD_identity(cs) ==
    [i \in 1..Len(cs) |-> <<cs[i].id, cs[i].type, cs[i].dateStr, cs[i].drillDown>>]

\* C18: in a peak-bar mode the registry holds the bar chart and at most one
\* drill-down day chart; a bar click leaves exactly one drill-down, a new
\* chart for the clicked date, and the previous drill-down destroyed and
\* unregistered; until the next click or rebuild the drill-down stays the
\* one of the date clicked last.
C18_SingleDrillDown ==
    [][/\ currentRange' \in {"maxWeek", "maxMonth"} =>
             /\ Len(charts') \in {1, 2}
             /\ charts'[1].type = "bar"
             /\ Len(charts') = 2 =>
                   charts'[2].type = "line" /\ charts'[2].drillDown
       /\ lastEvent'.type = "barClick" =>
             /\ DD_count(charts') = 1
             /\ \E i \in 1..Len(charts') :
                   /\ charts'[i].drillDown
                   /\ charts'[i].dateStr = lastEvent'.dateStr
                   /\ charts'[i].id \notin ChartIds(charts)
             /\ \A i \in 1..Len(charts) :
                   charts[i].drillDown =>
                       /\ charts[i].id \in destroyed'
                       /\ charts[i].id \notin ChartIds(charts')
       /\ lastEvent'.type \notin {"barClick", "filter", "refresh"} =>
             DD_identity(charts') = DD_identity(charts)]_vars

\* a click that replaced an earlier drill-down
C18_Witness ==
    /\ lastEvent.type = "barClick"
    /\ destroyed # {}
    /\ Len(charts) = 2
    /\ charts[2].drillDown
    /\ charts[2].dateStr = lastEvent.dateStr
    /\ charts[2].id \notin destroyed

\* the View Selector mode the registry shows
VS_mode(cs) ==
    IF Len(cs) = 0 THEN "none"
    ELSE IF cs[1].type = "bar"
    THEN (IF Len(cs[1].bars) = 7 THEN "peak bars, 7 days"
          ELSE IF Len(cs[1].bars) = 30 THEN "peak bars, 30 days" ELSE "other")
    ELSE IF Len(cs) = 1 THEN "single-day"
    ELSE IF Len(cs) = 2 THEN "two-day"
    ELSE IF Len(cs) = 7 THEN "seven-day grid" ELSE "other"

\* C19 as claimed: each of the identifiers 1d, 2d, 7d, peak-week and
\* peak-month selects its own mode (single-day, two-day, seven-day grid,
\* 7-day peak bars, 30-day peak bars) when updateChart selects the view.
C19_ViewSelection_Claimed ==
    RG_afterUpdateChart =>
        /\ currentRange = "1d" => VS_mode(charts) = "single-day"
        /\ currentRange = "2d" => VS_mode(charts) = "two-day"
        /\ currentRange = "7d" => VS_mode(charts) = "seven-day grid"
        /\ currentRange = "peak-week" => VS_mode(charts) = "peak bars, 7 days"
        /\ currentRange = "peak-month" => VS_mode(charts) = "peak bars, 30 days"

\* C19 amended: the identifiers are 1d, 2d, 7d, maxWeek and maxMonth, each
\* selecting its own mode; every other identifier, peak-week and peak-month
\* included, selects the single-day view.
C19_ViewSelection ==
    RG_afterUpdateChart =>
        /\ currentRange = "1d" => VS_mode(charts) = "single-day"
        /\ currentRange = "2d" => VS_mode(charts) = "two-day"
        /\ currentRange = "7d" => VS_mode(charts) = "seven-day grid"
        /\ currentRange = "maxWeek" => VS_mode(charts) = "peak bars, 7 days"
        /\ currentRange = "maxMonth" => VS_mode(charts) = "peak bars, 30 days"
        /\ currentRange \notin RangeIds => VS_mode(charts) = "single-day"

C19_Witness ==
    /\ lastEvent.type = "filter"
    /\ currentRange = "peak-month"
    /\ VS_mode(charts) = "single-day"
    /\ Len(historyData) > 0

----------------------------------------------------------------------------
(* Properties of a refresh whose fetch of the history failed *)

\* the chart is drawn from no sample at all
FF_isEmptyChart(c) ==
    IF c.type = "bar"
    THEN \A k \in 1..Len(c.bars) :
             /\ c.bars[k].dayEntries = <<>>
             /\ c.bars[k].maxLead = Null
             /\ c.bars[k].maxBoulder = Null
    ELSE \A k \in 1..Len(c.labels) :
             /\ c.labels[k] \in {c.xMin, c.xMax}
             /\ c.leadData[k] = 0
             /\ c.boulderData[k] = 0

\* C20: when the fetch of the history fails (network error, HTTP error or
\* malformed JSON) fetchData resolves to an empty history and the refresh
\* runs to its end: the status cards, the chart area and the best-times grid
\* show their empty state.
C20_FetchFailureShowsPlaceholders ==
    (lastEvent.type = "refresh" /\ lastEvent.outcome = "historyFail") =>
        /\ lastEvent.fetched = <<>>
        /\ lastEvent.page.leadValue = "--"
        /\ lastEvent.page.boulderValue = "--"
        /\ lastEvent.page.lastUpdated = "No data available"
        /\ lastEvent.page.timesGrid = "Not enough data yet"
        /\ Len(charts) > 0
        /\ \A i \in 1..Len(charts) : FF_isEmptyChart(charts[i])

\* the failure comes after a refresh that had loaded samples
C20_Witness ==
    /\ lastEvent.type = "refresh"
    /\ lastEvent.outcome = "historyFail"
    /\ Len(historyData) > 0
    /\ lastEvent.page.leadValue = "--"
    /\ Len(charts) > 0

----------------------------------------------------------------------------
(* Properties of a refresh whose fetch of the status failed *)

\* C21 as claimed: when the history is fetched and only the status resource
\* fails (its fetch rejects or is not ok: outcome "ok" with a null status;
\* its body is malformed: outcome "statusFail"), fetchData resolves to the
\* fetched history, never to an empty data set in its place.
C21_StatusFailureKeepsHistory_Claimed ==
    (lastEvent.type = "refresh" /\ lastEvent.outcome \in {"ok", "statusFail"}) =>
        lastEvent.fetched = historyData

----------------------------------------------------------------------------
(* Properties of a refresh or mode switch over a malformed history *)

\* the data the last step computed on
RE_data == IF lastEvent.type = "refresh" THEN lastEvent.fetched ELSE historyData

\* some computation of the last step threw
RE_threw ==
    \/ /\ lastEvent.type = "refresh"
       /\ \/ updateCurrentStatusThrows(RE_data)
          \/ groupDataByDayThrows(RE_data)
          \/ updateBestTimesThrows(RE_data)
    \/ /\ lastEvent.type = "filter"
       /\ groupDataByDayThrows(RE_data)

\* C22 as claimed: when a computation of a refresh or of a mode switch
\* throws on a malformed sample, the exception is caught, the error message
\* stands in place of the charts and no exception escapes the refresh.
C22_RenderErrorsCaught_Claimed ==
    RE_threw =>
        /\ lastEvent.caught
        /\ ~lastEvent.escaped
        /\ charts = <<>>

----------------------------------------------------------------------------
(* Properties of pruneOldData *)

\* the positions of data whose entry is later than now minus maxDays days
PR_kept(data, maxDays) ==
    { k \in 1..Len(data) : data[k].timestamp > now - maxDays * DayTicks }

\* out lists the entries of data at the positions in keep, in their order
PR_isSubsequenceAt(out, data, keep) ==
    /\ Len(out) = Cardinality(keep)
    /\ \A k \in keep :
          out[Cardinality({ j \in keep : j <= k })] = data[k]

\* C23: pruneOldData(data, maxDays) returns exactly the entries of data whose
\* timestamp is later than now minus maxDays days, in their original
\* relative order, leaves data as it was, and pruning the result again at
\* the same instant changes nothing.
C23_PruneKeepsRecent ==
    call.fn = "pruneOldData" =>
        /\ PR_isSubsequenceAt(call.out, call.input, PR_kept(call.input, call.maxDays))
        /\ dataFile.data = call.input
        /\ call.again = call.out

\* an entry exactly at the cutoff and an older one go, a younger one that
\* follows them stays
C23_Witness ==
    /\ call.fn = "pruneOldData"
    /\ call.maxDays = MAX_DAYS
    /\ Len(call.input) = 2
    /\ call.input[1].timestamp = now - 7 * DayTicks
    /\ call.input[2].timestamp = now - 2 * DayTicks
    /\ Len(call.out) = 1

----------------------------------------------------------------------------
(* Properties of the history file under runs of collect() *)

\* the entries are in the order of their timestamps
HF_timeOrdered(data) ==
    \A i, j \in 1..Len(data) : i < j => data[i].timestamp <= data[j].timestamp

\* every entry lies within the retention window that ends at t
HF_withinRetention(data, t) ==
    \A k \in 1..Len(data) :
        /\ data[k].timestamp > t - MAX_DAYS * DayTicks
        /\ data[k].timestamp <= t

\* new is old without its first dropped entries, followed by added
HF_isTailPlus(new, old, dropped, added) ==
    new = SubSeq(old, dropped + 1, Len(old)) \o added

\* a run that wrote: some oldest entries, all out of the retention window,
\* are gone, the others are kept as they were and in their order, and one
\* entry with the time of the run stands at the end
HF_written ==
    /\ Len(dataFile'.data) > 0
    /\ dataFile'.data[Len(dataFile'.data)].timestamp = now
    /\ \E dropped \in 0..Len(dataFile.data) :
          /\ HF_isTailPlus(dataFile'.data, dataFile.data, dropped,
                           <<dataFile'.data[Len(dataFile'.data)]>>)
          /\ \A k \in 1..dropped :
                dataFile.data[k].timestamp <= now - MAX_DAYS * DayTicks
    /\ HF_withinRetention(dataFile'.data, now)
    /\ HF_timeOrdered(dataFile'.data)

\* C24: over runs of collect() with a clock that never goes back, the
\* history file is append-only and time-ordered: a run that writes adds one
\* entry at the end, keeps the stored entries unmodified and in order and
\* drops only entries older than the retention window, so that after the
\* write every entry lies within the window; a run that does not write
\* leaves the file as it is.
C24_AppendOnlyHistory ==
    [][ /\ run'.outcome = "written" => HF_written
        /\ run'.outcome \in {"skipped", "thrown"} => dataFile' = dataFile
        /\ HF_timeOrdered(dataFile'.data) ]_vars

\* a run a week later drops the oldest entry, keeps the younger one and
\* appends its own
C24_Witness ==
    /\ run.outcome = "written"
    /\ Len(dataFile.data) = 2
    /\ dataFile.data[1].timestamp = Today * DayTicks + 12 * HourTicks
    /\ dataFile.data[2].timestamp = now
    /\ now = (Today + 7) * DayTicks + 11 * HourTicks

----------------------------------------------------------------------------
(* Properties of a run of collect() while the gym is closed *)

CL_zeroSample(t) == [timestamp |-> t, lead |-> 0, boulder |-> 0, overall |-> 0]

\* the history is empty or the overall of its last entry is not 0
CL_needsMarker(data) == Len(data) = 0 \/ data[Len(data)].overall # 0

\* C25: a run of collect() at a time the gym is closed never invokes the
\* scraper; it appends a zero-occupancy sample when the history is empty or
\* the overall of the last stored sample is not 0, and appends nothing
\* otherwise, so that closed-time runs in a row add one marker at most.
C25_ClosedRunAddsOneMarker ==
    [][ (run'.outcome # "none" /\ ~run'.isOpen) =>
            /\ ~run'.scraped
            /\ IF CL_needsMarker(dataFile.data)
               THEN /\ run'.outcome = "written"
                    /\ dataFile'.kind = "array"
                    /\ Len(dataFile'.data) > 0
                    /\ Len(dataFile'.data) <= Len(dataFile.data) + 1
                    /\ dataFile'.data[Len(dataFile'.data)] = CL_zeroSample(now)
                    /\ ~CL_needsMarker(dataFile'.data)
               ELSE /\ run'.outcome = "skipped"
                    /\ dataFile' = dataFile ]_vars

\* a second closed-time run, later than the one that wrote the marker
C25_Witness ==
    /\ run.outcome = "skipped"
    /\ ~run.isOpen
    /\ Len(dataFile.data) = 2
    /\ dataFile.data[1].overall # 0
    /\ dataFile.data[2] = CL_zeroSample(Today * DayTicks + 15 * HourTicks)
    /\ now > dataFile.data[2].timestamp

----------------------------------------------------------------------------
(* Properties of the overall value of a sample *)

\* v is the mean of a and b rounded to an integer, a half rounded up, and
\* no number when a or b is none
OV_isRoundedMean(v, a, b) ==
    IF a = NaN \/ b = NaN
    THEN v = NaN
    ELSE 2 * v - (a + b) \in {0, 1}

OV_consistent(s) ==
    /\ (s.lead # Null /\ s.boulder # Null) => OV_isRoundedMean(s.overall, s.lead, s.boulder)
    /\ (s.lead # Null /\ s.boulder = Null) => s.overall = s.lead
    /\ (s.lead = Null /\ s.boulder # Null) => s.overall = s.boulder
    /\ (s.lead = Null /\ s.boulder = Null) => s.overall = Null

----------------------------------------------------------------------------
(* Properties of the opening hours used for a normalized day *)

\* the hours that hold on the day d: the exception of its month and day
\* when the table has one, the standard hours otherwise
EX_hours(d) ==
    LET date == <<civil(d).month, civil(d).day>>
    IN CASE date = <<12, 24>> -> [start |-> 9, end |-> 14]
         [] date = <<12, 25>> -> [start |-> 14, end |-> 22]
         [] date = <<12, 31>> -> [start |-> 9, end |-> 14]
         [] date = <<1, 1>> -> [start |-> 14, end |-> 22]
         [] OTHER -> [start |-> 9, end |-> 22]

\* C27 as claimed: the series of a normalized day is bounded by the hours of
\* the exception entry of that date when one exists, and by 09:00 and 22:00
\* otherwise.
C27_ExceptionHours_Claimed ==
    normCall.called =>
        /\ getHours(normCall.out.minTime) = EX_hours(normCall.dateStr).start
        /\ getHours(normCall.out.maxTime) = EX_hours(normCall.dateStr).end

----------------------------------------------------------------------------
(* Properties of the horizontal placement of a label *)

\* twice the centre used, and twice the bounds the claim names
LB_centre2 == clampCall.out[1]
LB_min2 == 2 * clampCall.left + clampCall.textWidth
LB_max2 == 2 * clampCall.right - clampCall.textWidth

LB_fits == clampCall.textWidth <= clampCall.right - clampCall.left

\* C28 as claimed: the centre used for a label of width w lies between
\* left + w/2 and right - w/2, whatever the width.
C28_LabelWithinPlot_Claimed ==
    clampCall.plugin # "none" =>
        LB_min2 <= LB_centre2 /\ LB_centre2 <= LB_max2

\* C28 amended: the centre used lies between left + w/2 and right - w/2
\* when the label is no wider than the plot area, and it is the anchor
\* itself when that lies between them; a label wider than the plot area is
\* centred at left + w/2, so it starts at the left edge and runs past the
\* right one.
C28_LabelWithinPlot ==
    clampCall.plugin # "none" =>
        /\ clampCall.out[2] = 2
        /\ LB_fits => LB_min2 <= LB_centre2 /\ LB_centre2 <= LB_max2
        /\ (LB_min2 <= 2 * clampCall.xPos /\ 2 * clampCall.xPos <= LB_max2)
              => LB_centre2 = 2 * clampCall.xPos
        /\ ~LB_fits => LB_centre2 = LB_min2

\* a peak label anchored at the right edge is moved left by half its width
C28_Witness ==
    /\ clampCall.plugin = "peakLines"
    /\ clampCall.xPos = clampCall.right
    /\ clampCall.textWidth = 7
    /\ LB_fits
    /\ LB_centre2 = LB_max2
    /\ LB_centre2 < 2 * clampCall.xPos

----------------------------------------------------------------------------
(* Properties of isGymOpen *)

\* the hours that hold on the local calendar day of the instant t
GO_hours(t) == EX_hours(toDateString(t))

\* C29: isGymOpen(date) is true exactly when start <= local hour < end, with
\* start and end taken from the exception entry of the date's month and day
\* when there is one and 9 and 22 otherwise; at the closing hour the gym is
\* closed.
C29_OpenWithinHours ==
    call.fn = "isGymOpen" =>
        (call.open <=> /\ GO_hours(now).start <= getHours(now)
                       /\ getHours(now) < GO_hours(now).end)

\* 14:00 on 24 December, the closing hour of that day
C29_Witness ==
    /\ call.fn = "isGymOpen"
    /\ civil(toDateString(now)) = [month |-> 12, day |-> 24]
    /\ getHours(now) = 14
    /\ ~call.open

----------------------------------------------------------------------------
(* Properties of readHistory on a history file that may be damaged *)

\* a backup made by this step holds what the history file held
RH_backedUpNow == \E b \in backups' \ backups : b.content = dataFile

\* what the step returned from readHistory
RH_returned ==
    /\ dataFile.kind = "array" => run'.history = dataFile.data
    /\ dataFile.kind # "array" => run'.history = <<>>

----------------------------------------------------------------------------
(* Properties of a run of collect() in which scrapeOccupancy() throws *)

\* the scraper was called and gave no sample: a request failed, or neither
\* value was found in the answer
ST_scrapeFailed == run'.scraped /\ run'.parsed.lead = Null /\ run'.parsed.boulder = Null

\* the status record of a failed run
ST_failureStatus ==
    /\ statusFile'.success = FALSE
    /\ statusFile'.lastRun = now
    /\ statusFile'.message \in
          {"request failed", "Failed to parse occupancy data: No known selectors matched"}

----------------------------------------------------------------------------
(* Properties of a run of collect() that finds the closed marker in place *)

\* the gym is closed and the last stored sample has overall = 0
SK_markerInPlace ==
    /\ ~isGymOpen(now)
    /\ dataFile.kind = "array"
    /\ Len(dataFile.data) > 0
    /\ dataFile.data[Len(dataFile.data)].overall = 0

\* C38: a run of collect() while the gym is closed and the last stored
\* sample has overall = 0 changes neither the history file nor the status
\* file, so lastRun is not advanced, and returns without an error.
C38_SkipLeavesFilesAlone ==
    [][ (run'.outcome # "none" /\ SK_markerInPlace) =>
            /\ run'.outcome = "skipped"
            /\ run'.newData = <<>>
            /\ dataFile' = dataFile
            /\ statusFile' = statusFile
            /\ backups' = backups ]_vars

\* a closed-time run a week after the run that wrote the marker: the marker
\* is older than the retention window and is still the last stored sample,
\* and the status still shows the run that wrote it
C38_Witness ==
    /\ run.outcome = "skipped"
    /\ now = (Today + 7) * DayTicks + 16 * HourTicks
    /\ Len(dataFile.data) > 0
    /\ dataFile.data[Len(dataFile.data)] = CL_zeroSample(Today * DayTicks + 15 * HourTicks)
    /\ statusFile.lastRun = Today * DayTicks + 15 * HourTicks
    /\ statusFile.success
    /\ statusFile.message = "Gym closed (0 recorded)"

----------------------------------------------------------------------------
(* Bounds of the values getInterpolatedValues returns *)

\* every value of the series is null or a percentage
IB_percentages ==
    \A k \in 1..Len(IC_labels) :
        /\ normCall.out.leadData[k] \in {Null} \cup 0..100
        /\ normCall.out.boulderData[k] \in {Null} \cup 0..100

\* lo <= fraction <= hi
IB_within(fraction, lo, hi) ==
    /\ fraction[2] > 0
    /\ lo * fraction[2] <= fraction[1]
    /\ fraction[1] <= hi * fraction[2]

\* the fraction lies between the endpoint values when both are non-null, and
\* is a percentage in every case
IB_bounded(fraction, start, end) ==
    /\ (start # Null /\ end # Null) =>
          IB_within(fraction, mathMin(start, end), mathMax(start, end))
    /\ IB_within(fraction, 0, 100)

\* C39: for a query within the bounds of a series whose values are null or
\* in [0,100], each value getInterpolatedValues returns lies between the
\* values of the two bracketing points when both are non-null, and within
\* [0,100] in every case.
C39_InterpolationBounded ==
    (interpCall.called /\ IC_inBounds /\ IB_percentages /\ ~interpCall.values.isNull) =>
        \E i \in 1..(Len(IC_labels) - 1) :
            /\ IC_firstPair(i)
            /\ IB_bounded(interpCall.values.lead,
                          normCall.out.leadData[i], normCall.out.leadData[i + 1])
            /\ IB_bounded(interpCall.values.boulder,
                          normCall.out.boulderData[i], normCall.out.boulderData[i + 1])

\* a query inside the second interval of a series that rises and then falls:
\* the value lies strictly between the falling endpoints
C39_Witness ==
    /\ interpCall.called
    /\ ~interpCall.values.isNull
    /\ Len(IC_labels) >= 3
    /\ IC_firstPair(2)
    /\ IC_labels[2] < interpCall.time
    /\ interpCall.time < IC_labels[3]
    /\ normCall.out.boulderData[1] = 0
    /\ normCall.out.boulderData[2] = 60
    /\ normCall.out.boulderData[3] < 60
    /\ normCall.out.boulderData[3] # Null
    /\ interpCall.values.boulder[1] < 60 * interpCall.values.boulder[2]
    /\ interpCall.values.boulder[1] >
           normCall.out.boulderData[3] * interpCall.values.boulder[2]

----------------------------------------------------------------------------
(* The peaks of a drill-down chart and of the grid-view chart of one day *)

\* the entries of calculateDailyMax for the day the grid view rendered
PD_entries ==
    { k \in 1..Len(maxCall.out) : maxCall.out[k].dateStr = normCall.dateStr }

PD_samePeaks(entry, peaks) ==
    /\ entry.maxLead = peaks.maxLead
    /\ entry.maxLeadTime = peaks.maxLeadTime
    /\ entry.maxBoulder = peaks.maxBoulder
    /\ entry.maxBoulderTime = peaks.maxBoulderTime

\* C37: for one day of one history, the entry of calculateDailyMax holds
\* the samples of the bucket groupDataByDay makes for that day, in the same
\* order, and its maxLead, maxLeadTime, maxBoulder and maxBoulderTime are
\* those calculatePeaksForDay returns for the bucket, so that a drill-down
\* chart marks the same peaks as the grid-view chart of the day.
C37_PeakComputationsAgree ==
    (maxCall.called /\ normCall.called) =>
        /\ PD_entries # {}
        /\ \A k \in PD_entries :
              /\ maxCall.out[k].dayEntries = normCall.rawData
              /\ PD_samePeaks(maxCall.out[k], normCall.peaks)

\* a day whose lead maximum is held by two samples: both computations give
\* the time of the first of them
C37_Witness ==
    /\ maxCall.called
    /\ normCall.called
    /\ Len(normCall.rawData) = 2
    /\ normCall.rawData[1].lead = 40
    /\ normCall.rawData[2].lead = 40
    /\ normCall.rawData[1].timestamp < normCall.rawData[2].timestamp
    /\ normCall.peaks.maxLeadTime = normCall.rawData[1].timestamp
    /\ \E k \in PD_entries :
          /\ maxCall.out[k].maxLeadTime = normCall.rawData[1].timestamp
          /\ maxCall.out[k].maxLead = 40
          /\ maxCall.out[k].maxBoulder = 60

----------------------------------------------------------------------------
(* Properties of a pointer move outside the plotting area *)

\* the cursor of every registered chart
PM_cursors(cs) == [i \in 1..Len(cs) |-> <<cs[i].id, cs[i].crosshair>>]

\* C36: a mousemove event whose position is outside the chart area leaves
\* the cursor of the chart that received it and of every other registered
\* chart as it was: no chart becomes Active or Idle and nothing is broadcast.
C36_MoveOutsideIgnored ==
    [][ (lastEvent'.type = "mousemove" /\ ~lastEvent'.inChartArea) =>
            /\ PM_cursors(charts') = PM_cursors(charts)
            /\ charts' = charts
            /\ destroyed' = {} ]_vars

\* the pointer left the plotting area of a chart while still over its
\* canvas: the cursors of two charts are still Active
C36_Witness ==
    /\ lastEvent.type = "mousemove"
    /\ ~lastEvent.inChartArea
    /\ Len(charts) >= 2
    /\ charts[1].crosshair.active
    /\ charts[2].crosshair.active

----------------------------------------------------------------------------
(* Properties of the data the charts show after a refresh *)

\* the samples a registry shows: the series of every day chart and the
\* entries of every bar chart
SH_shown(cs) ==
    [i \in 1..Len(cs) |->
        [type |-> cs[i].type, dateStr |-> cs[i].dateStr, labels |-> cs[i].labels,
         leadData |-> cs[i].leadData, boulderData |-> cs[i].boulderData,
         bars |-> cs[i].bars]]

\* what a mode switch to range would show: updateChart(historyData)
SH_switched(range) == SH_shown(updateChart(charts, range, historyData))

\* C32 as claimed: after a refresh has completed, also one whose fetch
\* failed, the charts show the samples held in historyData, so that a mode
\* switch made next, to any mode and to the current one as well, shows the
\* data the refresh displayed.
C32_ChartsShowHistoryData_Claimed ==
    lastEvent.type = "refresh" =>
        /\ lastEvent.fetched = historyData
        /\ SH_shown(charts) = SH_switched(currentRange)

----------------------------------------------------------------------------
(* Properties of the dataset toggles *)

\* which datasets each registered chart draws
TG_visibility(cs) ==
    [i \in 1..Len(cs) |->
        [id |-> cs[i].id, lead |-> isDatasetVisible(cs[i], "lead"),
         boulder |-> isDatasetVisible(cs[i], "boulder")]]

\* every registered chart draws the series visibleDatasets names
TG_consistent ==
    \A i \in 1..Len(charts) :
        /\ isDatasetVisible(charts[i], "lead") = visibleDatasets.lead
        /\ isDatasetVisible(charts[i], "boulder") = visibleDatasets.boulder

TG_other(series) == IF series = "lead" THEN "boulder" ELSE "lead"

\* a toggle flips the series on every registered chart and leaves the other
\* series and the registry as they were
TG_flips ==
    lastEvent'.type = "toggle" =>
        LET series == lastEvent'.series
        IN /\ visibleDatasets'[series] = ~visibleDatasets[series]
           /\ visibleDatasets'[TG_other(series)] = visibleDatasets[TG_other(series)]
           /\ Len(charts') = Len(charts)
           /\ \A i \in 1..Len(charts) :
                 /\ charts'[i].id = charts[i].id
                 /\ isDatasetVisible(charts'[i], series) =
                        ~isDatasetVisible(charts[i], series)
                 /\ isDatasetVisible(charts'[i], TG_other(series)) =
                        isDatasetVisible(charts[i], TG_other(series))

\* C35: after any sequence of dataset toggles, mode switches, refreshes and
\* bar clicks, every registered chart shows its lead dataset exactly when
\* visibleDatasets.lead holds and its boulder dataset exactly when
\* visibleDatasets.boulder holds, charts made after a toggle included; a
\* toggle inverts the visibility of its series on every chart, so that two
\* toggles of one series restore it.
C35_VisibilityFollowsToggles ==
    [][ TG_consistent' /\ TG_flips ]_vars

\* a drill-down chart made after lead was switched off, next to a bar chart
\* made before: neither draws lead, both draw boulder
C35_Witness ==
    /\ lastEvent.type = "barClick"
    /\ ~visibleDatasets.lead
    /\ visibleDatasets.boulder
    /\ Len(charts) = 2
    /\ charts[1].datasets.metaHidden.lead = "hidden"
    /\ charts[2].datasets.metaHidden.lead = "unset"
    /\ ~isDatasetVisible(charts[1], "lead")
    /\ ~isDatasetVisible(charts[2], "lead")
    /\ isDatasetVisible(charts[2], "boulder")

----------------------------------------------------------------------------
(* Properties of refreshes that overlap *)

\* no refresh() call is suspended in fetchData
RC_quiescent == refreshes.inFlight = <<>>

\* the charts show data, in the mode selected
RC_chartsShow(data) ==
    SH_shown(charts) = SH_shown(updateChart(charts, currentRange, data))

\* C33 as claimed: once no refresh is in flight, historyData and the charts
\* hold the data fetched by the refresh that started last, in whatever order
\* the fetches of overlapping refreshes resolved (stated for a last-started
\* refresh whose fetch succeeded).
C33_LaterRefreshWins_Claimed ==
    (RC_quiescent /\ refreshes.newest.outcome = "ok") =>
        /\ historyData = refreshes.newest.fetched
        /\ RC_chartsShow(refreshes.newest.fetched)

----------------------------------------------------------------------------
(* Properties of mode switches made while a refresh is in flight *)

\* the registry is the one of the mode range
MS_belongs(cs, range) ==
    /\ range = "1d" => RG_isDayGrid(cs, 1)
    /\ range = "2d" => RG_isDayGrid(cs, 2)
    /\ range = "7d" => RG_isDayGrid(cs, 7)
    /\ range = "maxWeek" => RG_isPeakBars(cs, 7)
    /\ range = "maxMonth" => RG_isPeakBars(cs, 30)

\* C34: however mode switches interleave with refreshes in flight, the
\* rebuild at the end of a refresh makes the charts of the mode selected at
\* that time, not of the mode selected when the refresh started, and once
\* no refresh is in flight the registry is the one of the mode selected last.
C34_RegistryOfLatestMode ==
    /\ lastEvent.type = "refresh" => MS_belongs(charts, currentRange)
    /\ RC_quiescent => MS_belongs(charts, currentRange)

\* the initial load started in mode 1d, the seven-day grid was selected
\* while its fetch was pending, and the refresh has rebuilt seven charts
C34_Witness ==
    /\ RC_quiescent
    /\ lastEvent.type = "refresh"
    /\ lastEvent.startedIn = "1d"
    /\ currentRange = "7d"
    /\ Len(charts) = 7
    /\ Len(lastEvent.fetched) > 0

====
